---- MODULE Spec2Model ----
(***************************************************************************)
(* Even Crop brain: the timing planner (scheduler.py), the GPIO layer      *)
(* (io_gpio.py), the hub with its auto-delay estimator and message         *)
(* handlers (server.py) and the profile helpers (profiles.py).             *)
(*                                                                         *)
(* Times are integer milliseconds.  The planner is a pure function of a    *)
(* BrainStateView, the tramline predicate, the pattern and the press time; *)
(* SpecPlan draws those inputs from bounded sets and applies plan_cycle.   *)
(* SpecGpio runs the output coroutines of RPiGPIO, SpecFlow the pulse      *)
(* counter against the edge-callback thread, SpecHub the estimator loop    *)
(* with presses and set/auto-delay messages, SpecSet the set handlers,     *)
(* SpecProfile the profile helpers beside cycle_loop.  Each specification  *)
(* leaves the components it does not run in their constructed state.       *)
(***************************************************************************)
EXTENDS Integers, Sequences, FiniteSets, TLC

VARIABLES
    view,       \* the state dict: what the setters write and state_fn() returns
    tramOff,    \* scheduler: unit ids for which tramline_off_fn is true
    pattern,    \* scheduler: Scheduler._pattern
    ret,        \* what the last Scheduler or profiles call returned
    profileFiles, \* profiles: the files under data/profiles, by name
    unitPin,    \* gpio: level RGPIO drives on each mapped unit pin
    buzzerPin,  \* gpio: level RGPIO drives on the buzzer pin
    calls,      \* gpio: the open_unit_for / buzzer coroutines and where each is
    pulse_count,\* gpio: BaseGPIO._pulse_count
    reader,     \* gpio: the event-loop thread inside get_pulses_and_reset
    edge,       \* gpio: the edge-callback thread inside a pulse increment
    returned,   \* gpio: sum of the values get_pulses_and_reset has returned
    delivered,  \* gpio: pulses whose increment has completed
    switch_state, \* gpio: BaseGPIO._switch_state
    releases,   \* gpio: the release callbacks call_later has scheduled
    loopMs,     \* gpio: the event loop's clock, in ms
    pressLog,   \* gpio: the presses so far, as [name, at] records
    autoDelay,  \* hub: state["autoDelay"]
    pressHistory, \* hub: state["pressHistory"], press times in ms
    simulation, \* hub: state["simulation"]
    tramline,   \* hub: state["tramline"], a map from unit-id strings to booleans
    tramMsg,    \* hub: the tram / tram-clear message handle_msg handled last
    buzzer,     \* hub: state["buzzer"]
    now,        \* hub: the clock (time.time(), in ms since the hub started)
    outbox,     \* hub: the messages the last step sent to the clients
    lastOp      \* hub: the loop body or handler that ran last

planVars == <<view, tramOff, pattern, ret, profileFiles>>
gpioVars == <<unitPin, buzzerPin, calls>>
switchVars == <<switch_state, releases, loopMs, pressLog>>
flowVars == <<pulse_count, reader, edge, returned, delivered,
              switch_state, releases, loopMs, pressLog>>
hubVars == <<autoDelay, pressHistory, simulation, tramline, tramMsg,
             buzzer, now, outbox, lastOp>>

vars == <<view, tramOff, pattern, ret, profileFiles, unitPin, buzzerPin, calls,
          pulse_count, reader, edge, returned, delivered,
          switch_state, releases, loopMs, pressLog,
          autoDelay, pressHistory, simulation, tramline, tramMsg,
          buzzer, now, outbox, lastOp>>

(***************************************************************************)
(* Bounds of the model.                                                    *)
(***************************************************************************)
NUnits == 3
NPins == 1
NCalls == 3
MaxPulses == 4
MaxPresses == 3
EarlyTicks == 4
LateTicks == 2
TramCalls == 2
MaxPasses == 23
VariedPasses == 3

(***************************************************************************)
(* Program constants.                                                      *)
(***************************************************************************)
DefaultDiagonalStepMs == 80
TickMs == 500
WindowMs == 15000
HistoryCap == 20
DefaultManualMs == 500
MomentaryMaxPct == 100
MsPerPct == 10
MinSleepMs == 1000
MaxSleepMs == 1500

(***************************************************************************)
(* The state after construction of each component.                         *)
(***************************************************************************)
NoCall == [op |-> "none"]

\* {}: a dict without keys.
EmptyDict == [k \in {} |-> 0]

\* A Scheduler over an empty snapshot, no call made yet.
SchedulerUnused ==
    /\ view = [units |-> <<>>]
    /\ tramOff = {}
    /\ pattern = "diamond"
    /\ ret = NoCall
    /\ profileFiles = EmptyDict

MappedUnits == 1..NPins
GpioUnits == 1..(NPins + 1)
CallIds == 1..NCalls

FreeCall == [kind |-> "free", unit |-> 0, on |-> FALSE, timed |-> FALSE,
             pc |-> "free", cancelReq |-> FALSE, highs |-> 0, lows |-> 0]

GpioConstructed ==
    /\ unitPin = [u \in MappedUnits |-> "LOW"]
    /\ buzzerPin = "LOW"
    /\ calls = [c \in CallIds |-> FreeCall]

GpioSwitches == {"M1", "M2", "M3"}

FlowConstructed ==
    /\ switch_state = [n \in GpioSwitches |-> FALSE]
    /\ releases = {}
    /\ loopMs = 0
    /\ pressLog = <<>>
    /\ pulse_count = 0
    /\ reader = [pc |-> "idle", c |-> 0]
    /\ edge = [pc |-> "idle", tmp |-> 0, n |-> 0]
    /\ returned = 0
    /\ delivered = 0

\* "tramline": {}
NoTramline == [k \in {} |-> TRUE]

\* No tram message handled yet.  was is whether the unit was tramlined before
\* the message, n the parity of the number of tram messages handled.
NoTramMsg == [type |-> "none", id |-> 0, off |-> FALSE, was |-> FALSE, n |-> 0]

\* default_state(): the state dict with its 11 units, and the buzzer flags.
NumUnits == 11
AllUnitIds == 1..NumUnits

DefaultUnit(i) ==
    [id |-> i, enabled |-> (i <= 4), group |-> (IF i % 2 = 1 THEN "A" ELSE "B"),
     momentary |-> "M1", offset |-> 0, perDelayMs |-> 0,
     pulsesPerCycle |-> 100, pulsesPerLiter |-> 450, msPerMl |-> 50,
     mode |-> "inherit",
     lastDeliveredMl |-> "None", deviation |-> "None", status |-> "OK"]

DefaultState ==
    [targetMl |-> 100, running |-> FALSE, deliveryMode |-> "flow",
     momentary |-> [n \in {"M1", "M2", "M3"} |-> [enabled |-> (n = "M1"), offset |-> 0]],
     autoDelay |-> [enabled |-> TRUE, manualMs |-> 500, geomLeadMs |-> 0,
                    currentMs |-> 500],
     units |-> [i \in AllUnitIds |-> DefaultUnit(i)]]

CfgLoaded == buzzer = [muted |-> FALSE, hardMute |-> FALSE]

\* default_state(): what load_state returns on the first run.
HubLoaded ==
    /\ CfgLoaded
    /\ autoDelay = [enabled |-> TRUE, manualMs |-> DefaultManualMs, geomLeadMs |-> 0,
                    currentMs |-> DefaultManualMs]
    /\ pressHistory = <<>>
    /\ simulation = [telemetry |-> FALSE, full |-> FALSE]
    /\ tramline = NoTramline
    /\ tramMsg = NoTramMsg
    /\ now = 0
    /\ outbox = <<>>
    /\ lastOp = "init"

Max(a, b) == IF a >= b THEN a ELSE b
Min(a, b) == IF a <= b THEN a ELSE b

Patterns == {"diamond", "diagonal", "line"}

(***************************************************************************)
(* Input sets of the planner.                                              *)
(***************************************************************************)
UnitIds == 1..NUnits
PerDelays == {-700, 200}
CurrentMsValues == {-200, 0, 500}
MomOffsets == {0, 30}
PressTimes == {1000}

\* msPerMl is kept in tenths of a millisecond per millilitre (50 = 5.0).
UnitState(i, en, g, per) ==
    [id |-> i, enabled |-> en, group |-> g, momentary |-> "M1", offset |-> 0,
     perDelayMs |-> per, mode |-> "inherit", pulsesPerCycle |-> 100,
     msPerMl |-> 50]

UnitChoice == [enabled : BOOLEAN, group : {"A", "B"}, perDelayMs : PerDelays]

MomentaryCfg(en, off) == [enabled |-> en, offset |-> off]

(***************************************************************************)
(* scheduler.py helpers                                                    *)
(***************************************************************************)
\* _momentary_ms: the switch's offset percent, clamped to 0..100, times 10;
\* 0 when no switch of that name is configured.  The enabled flag is not read.
MomentaryMs(m, name) ==
    IF name \notin DOMAIN m THEN 0
    ELSE Max(0, Min(MomentaryMaxPct, m[name].offset)) * MsPerPct

PatternBaseMsNoFloor(p, unit, auto, diagonal_step_ms) ==
    IF p = "diamond"
    THEN (IF unit.group = "A" THEN 0 ELSE auto.currentMs)
    ELSE IF p = "diagonal"
    THEN Max(0, (unit.id - 1) * diagonal_step_ms)
    ELSE 0

PatternBaseMs(p, unit, auto, diagonal_step_ms) ==
    IF p = "diamond"
    THEN (IF unit.group = "A" THEN 0 ELSE Max(0, auto.currentMs))
    ELSE IF p = "diagonal"
    THEN Max(0, (unit.id - 1) * diagonal_step_ms)
    ELSE 0

InheritModeGlobal(global_mode, unit_mode) == global_mode

InheritMode(global_mode, unit_mode) ==
    IF unit_mode \in {"flow", "timed"} THEN unit_mode ELSE global_mode

\* The per-unit delay _unit_fire_ms adds: perDelayMs after the diamond clamps.
PerUnitDelayNoBClamp(p, unit, st) ==
    IF p = "diamond" /\ unit.group = "A" /\ unit.perDelayMs < 0 THEN 0
    ELSE unit.perDelayMs

PerUnitDelayFloorAll(p, unit, st) ==
    LET per == unit.perDelayMs
        min_neg == 0 - Max(0, st.autoDelay.currentMs)
    IN  IF p = "diamond" /\ unit.group = "B" THEN Max(per, min_neg) ELSE Max(per, 0)

PerUnitDelay(p, unit, st) ==
    LET per == unit.perDelayMs
        min_neg == 0 - Max(0, st.autoDelay.currentMs)
        perB == IF p = "diamond" /\ unit.group = "B" /\ per < min_neg
                THEN min_neg ELSE per
    IN  IF p = "diamond" /\ unit.group = "A" /\ perB < 0 THEN 0 ELSE perB

UnitFireMs(base_ms, p, unit, st) ==
    base_ms
    + PatternBaseMs(p, unit, st.autoDelay, DefaultDiagonalStepMs)
    + MomentaryMs(st.momentary, unit.momentary)
    + PerUnitDelay(p, unit, st)

\* The non-negative rational n/d rounded to nearest, ties to even: what
\* round() returns when its argument is exactly n/d.
RoundHalfEven(n, d) ==
    LET q == n \div d
        r == n % d
    IN  IF 2 * r < d THEN q
        ELSE IF 2 * r > d THEN q + 1
        ELSE IF q % 2 = 0 THEN q ELSE q + 1

RECURSIVE Log2Floor(_, _)
\* The largest j with 2^j <= a/b, for a, b > 0.
Log2Floor(a, b) ==
    IF a >= b THEN (IF a < 2 * b THEN 0 ELSE 1 + Log2Floor(a, 2 * b))
    ELSE Log2Floor(2 * a, b) - 1

RECURSIVE Pow2(_)
Pow2(e) == IF e = 0 THEN 1 ELSE 2 * Pow2(e - 1)

\* float(k/10) for k not a multiple of 5 is not k/10: the 53-bit double next
\* to it is m / 2^s with s = 52 - Log2Floor(k, 10), and k * 2^s leaves the
\* remainder r modulo 10; the double lies r/10 units of 2^-s below k/10 when
\* r < 5 and (10 - r)/10 units above it otherwise.
DoubleScale(k) == 52 - Log2Floor(k, 10)
DoubleRemainder(k) == ((k % 10) * <<6, 2, 4, 8>>[(DoubleScale(k) % 4) + 1]) % 10
DoubleBelow(k) == DoubleRemainder(k) < 5
DoubleError(k) == IF DoubleBelow(k) THEN DoubleRemainder(k) ELSE 10 - DoubleRemainder(k)

\* t * float(k/10) in double arithmetic for a product t * k / 10 that is an
\* exact half T + 0.5: the double product is T + 0.5 itself when the error
\* t * DoubleError(k) / (10 * 2^s) is at most half the spacing of the doubles
\* around T + 0.5, and the next double on the side of float(k/10) otherwise.
ProductIsHalf(t, k) ==
    LET T == (t * k) \div 10
        d == Log2Floor(2 * T + 1, 2) - Log2Floor(k, 10) - 1
    IN  IF d >= 0 THEN t * DoubleError(k) <= 10 * Pow2(d)
        ELSE t * DoubleError(k) * Pow2(0 - d) <= 10

\* int(round(target * ms_per_ml)) with ms_per_ml = k/10 as a double: off a
\* half, and for k/10 a double itself, the exact product rounded; at a half
\* the double product decides.
RoundFloatProduct(t, k) ==
    LET n == t * k
        T == n \div 10
    IN  IF k % 5 = 0 \/ n % 10 # 5 THEN RoundHalfEven(n, 10)
        ELSE IF ProductIsHalf(t, k) THEN (IF T % 2 = 0 THEN T ELSE T + 1)
        ELSE IF DoubleBelow(k) THEN T ELSE T + 1

\* _duration_and_mode: <<duration_ms, mode_info>>; duration "None" for flow.
DurationAndMode(unit, st) ==
    LET target == Max(1, st.targetMl)
        mode == InheritMode(st.deliveryMode, unit.mode)
    IN  IF mode = "timed"
        THEN LET ms_per_ml == Max(1, IF unit.msPerMl = 0 THEN 50 ELSE unit.msPerMl)
             IN  <<RoundFloatProduct(target, ms_per_ml),
                   [mode |-> "timed", ms_per_ml |-> ms_per_ml, target_ml |-> target]>>
        ELSE LET pulses == Max(1, IF unit.pulsesPerCycle = 0 THEN 100
                                  ELSE unit.pulsesPerCycle)
             IN  <<"None",
                   [mode |-> "flow", pulses |-> pulses, target_ml |-> target]>>

Entry(t0, p, u, st) ==
    LET dm == DurationAndMode(u, st)
    IN  [unit_id |-> u.id, start_ms |-> UnitFireMs(t0, p, u, st),
         duration_ms |-> dm[1], mode_info |-> dm[2]]

\* The key of out.sort: (start_ms, unit_id), compared lexicographically.
KeyLeq(a, b) ==
    \/ a.start_ms < b.start_ms
    \/ a.start_ms = b.start_ms /\ a.unit_id <= b.unit_id

\* list.sort is stable: e goes after every element whose key is <= its own.
RECURSIVE InsertSorted(_, _)
InsertSorted(e, s) ==
    IF s = <<>> THEN <<e>>
    ELSE IF KeyLeq(s[1], e) THEN <<s[1]>> \o InsertSorted(e, Tail(s))
    ELSE <<e>> \o s

SortEntriesUnsorted(s) == s

RECURSIVE SortEntries(_)
SortEntries(s) ==
    IF s = <<>> THEN <<>>
    ELSE InsertSorted(s[Len(s)], SortEntries(SubSeq(s, 1, Len(s) - 1)))

\* The loop of plan_cycle over st.units, before the sort.
RECURSIVE CollectEntriesDropPast(_, _, _, _)
CollectEntriesDropPast(units, t0, p, st) ==
    IF units = <<>> THEN <<>>
    ELSE LET u == units[1]
             rest == CollectEntriesDropPast(Tail(units), t0, p, st)
         IN  IF ~u.enabled \/ u.id \in tramOff \/ UnitFireMs(t0, p, u, st) < t0
             THEN rest
             ELSE <<Entry(t0, p, u, st)>> \o rest

RECURSIVE CollectEntries(_, _, _, _)
CollectEntries(units, t0, p, st) ==
    IF units = <<>> THEN <<>>
    ELSE LET u == units[1]
             rest == CollectEntries(Tail(units), t0, p, st)
         IN  IF ~u.enabled \/ u.id \in tramOff THEN rest
             ELSE <<Entry(t0, p, u, st)>> \o rest

PlanCycleResult(t0, p, st) == SortEntries(CollectEntries(st.units, t0, p, st))


(***************************************************************************)
(* server.py: the hub's auto-delay estimator.  Press times and the clock   *)
(* are readings of time.time(): seconds since 1970 held as doubles, which  *)
(* at the size the clock has lie 2^-22 s apart.  The model counts whole    *)
(* milliseconds from the reading at which the hub started.  Two readings a *)
(* multiple of 125 ms apart differ by exactly that many seconds; the       *)
(* difference of two others is a double beside the exact one, on a side    *)
(* that depends on the readings.  An age of 15 s is an exact difference.   *)
(* A half mean interval that is a whole number of ms is computed exactly   *)
(* when the presses span a multiple of 125 ms; otherwise the doubles       *)
(* decide whether int() sees it or a value just below it, and both are     *)
(* steps.  save_state only writes the state to disk and is not modelled.   *)
(***************************************************************************)
\* The instants at which something happens, counted from the start: the
\* first ticks, two instants the loops reach when their sleeps overrun by
\* a few ms (not a multiple of 125 ms away from the others), and the ticks
\* around the moment the first presses leave the window.
Instants ==
    { k * TickMs : k \in 0..EarlyTicks }
    \cup {502, 1506}
    \cup { WindowMs - TickMs + k * TickMs : k \in 0..LateTicks }

ManualChoices == {500, -100}
GeomChoices == {0, 50, -600}
CfgKeys == {"enabled", "manualMs", "geomLeadMs"}

\* The "value" object of a set/auto-delay message: no key, one key, or all
\* three (the whole panel at once).
CfgKeySets == {{}, {"enabled"}, {"manualMs"}, {"geomLeadMs"}}

FullCfgs ==
    { [k \in CfgKeys |-> CASE k = "enabled" -> FALSE [] k = "manualMs" -> 500
                                                      [] OTHER -> 50],
      [k \in CfgKeys |-> CASE k = "enabled" -> TRUE [] k = "manualMs" -> -100
                                                     [] OTHER -> -600] }

AutoDelayCfgs ==
    { [k \in K |-> CASE k = "enabled" -> e [] k = "manualMs" -> m [] OTHER -> g] :
        K \in CfgKeySets, e \in BOOLEAN, m \in ManualChoices, g \in GeomChoices }
    \cup FullCfgs

AutoDelayMsg(v) == [type |-> "auto-delay", value |-> v]
CycleMsg == [type |-> "cycle", value |-> 0]

RECURSIVE SeqSum(_)
SeqSum(s) == IF s = <<>> THEN 0 ELSE s[1] + SeqSum(Tail(s))

\* How a double computation that lands on a whole number falls.
FloatFalls == {"on", "below"}

SelectRecentKeepsAll(ph, t) == ph

RECURSIVE SelectRecent(_, _)
\* [p for p in pressHistory if time.time() - p < 15]
SelectRecent(ph, t) ==
    IF ph = <<>> THEN <<>>
    ELSE IF t - ph[1] < WindowMs
         THEN <<ph[1]>> \o SelectRecent(Tail(ph), t)
         ELSE SelectRecent(Tail(ph), t)

Intervals(ph) == [i \in 1..(Len(ph) - 1) |-> ph[i + 1] - ph[i]]

HalfMeanIntervalOverPresses(ph, f) ==
    Max(0, SeqSum(Intervals(ph)) \div (2 * Len(ph)))

\* max(0, int(avg*1000/2)) with avg = sum(intervals)/len(intervals): int()
\* drops the fraction, so this is the floor of sum / (2 * len).  The sum of
\* the intervals is the difference of the last and the first reading, which
\* is exact when they are a multiple of 125 ms apart; when it is not and the
\* quotient is a whole number, the doubles may fall below it and int() gives
\* one less.
HalfMeanInterval(ph, f) ==
    LET sum == SeqSum(Intervals(ph))
        halves == 2 * Len(Intervals(ph))
    IN  IF /\ sum > 0 /\ sum % halves = 0
           /\ sum % 125 # 0
           /\ f = "below"
        THEN (sum \div halves) - 1
        ELSE Max(0, sum \div halves)

\* The disabled branch: current = max(0, manual + geom).
ManualCurrentNoGeom(ad) == Max(0, ad.manualMs)

ManualCurrent(ad) == Max(0, ad.manualMs + ad.geomLeadMs)

\* The enabled branch: half the mean interval of the recent presses, or
\* manualMs when fewer than 3 are recent; plus geomLeadMs; floored at 0.
CadenceCurrentFallbackNoGeom(ad, ph, f) ==
    IF Len(ph) >= 3 THEN Max(0, HalfMeanInterval(ph, f) + ad.geomLeadMs)
    ELSE ad.manualMs

CadenceCurrentNoFloor(ad, ph, f) ==
    (IF Len(ph) >= 3 THEN HalfMeanInterval(ph, f) ELSE ad.manualMs) + ad.geomLeadMs

CadenceCurrent(ad, ph, f) ==
    LET b == IF Len(ph) >= 3 THEN HalfMeanInterval(ph, f) ELSE ad.manualMs
    IN  Max(0, b + ad.geomLeadMs)

\* The value one pass of _auto_delay_loop computes, the half mean interval
\* falling as h.
PassValue(ad, ph, t, h) ==
    IF ~ad.enabled THEN ManualCurrent(ad)
    ELSE CadenceCurrent(ad, SelectRecent(ph, t), h)

\* The clock moves on to a later instant.
Advance ==
    /\ \E t \in Instants : t > now /\ now' = t
    /\ lastOp' = "advance"
    /\ outbox' = <<>>
    /\ UNCHANGED <<autoDelay, pressHistory, simulation, tramline, tramMsg>>
    /\ UNCHANGED buzzer
    /\ UNCHANGED <<planVars, gpioVars, flowVars>>

\* One pass of _auto_delay_loop after its sleep.
AutoDelayTickLevelTriggered ==
    /\ \E h \in FloatFalls :
         LET cur == PassValue(autoDelay, pressHistory, now, h)
         IN  /\ autoDelay' = [autoDelay EXCEPT !.currentMs = cur]
             /\ outbox' = <<AutoDelayMsg(cur)>>
    /\ lastOp' = "tick"
    /\ UNCHANGED <<pressHistory, simulation, tramline, tramMsg, now>>
    /\ UNCHANGED buzzer
    /\ UNCHANGED <<planVars, gpioVars, flowVars>>

AutoDelayTick ==
    /\ \E h \in FloatFalls :
         LET cur == PassValue(autoDelay, pressHistory, now, h)
         IN  IF cur # autoDelay.currentMs
             THEN /\ autoDelay' = [autoDelay EXCEPT !.currentMs = cur]
                  /\ outbox' = <<AutoDelayMsg(cur)>>
             ELSE /\ UNCHANGED autoDelay
                  /\ outbox' = <<>>
    /\ lastOp' = "tick"
    /\ UNCHANGED <<pressHistory, simulation, tramline, tramMsg, now>>
    /\ UNCHANGED buzzer
    /\ UNCHANGED <<planVars, gpioVars, flowVars>>

\* pressHistory[-20:]
KeepLastDropsNewest(h) == IF Len(h) > HistoryCap THEN SubSeq(h, 1, HistoryCap) ELSE h

KeepLast(h) ==
    IF Len(h) > HistoryCap THEN SubSeq(h, Len(h) - HistoryCap + 1, Len(h)) ELSE h

\* One pass of cycle_loop: the press is recorded, the history cut to its
\* last 20 entries, "cycle" sent.  A simulate message restarts the loop, so
\* a pass can start at any instant while simulation.full is set.
CyclePress ==
    /\ simulation.full
    /\ Len(pressHistory) < MaxPresses
    /\ pressHistory' = KeepLast(Append(pressHistory, now))
    /\ outbox' = <<CycleMsg>>
    /\ lastOp' = "press"
    /\ UNCHANGED <<autoDelay, simulation, tramline, tramMsg, now>>
    /\ UNCHANGED buzzer
    /\ UNCHANGED <<planVars, gpioVars, flowVars>>

\* One pass of cycle_loop on its own, up to its sleep: the press is recorded
\* and "cycle" sent at the instant the pass runs.  The loop is in its sleep
\* from the pass until the clock has moved past the press it recorded,
\* whatever else the hub handles in between.
CycleLoopPass ==
    /\ simulation.full
    /\ IF pressHistory = <<>> THEN TRUE ELSE now > pressHistory[Len(pressHistory)]
    /\ pressHistory' = KeepLast(Append(pressHistory, now))
    /\ outbox' = <<CycleMsg>>
    /\ lastOp' = "press"
    /\ UNCHANGED <<autoDelay, simulation, tramline, tramMsg, now>>
    /\ UNCHANGED buzzer
    /\ UNCHANGED <<planVars, gpioVars, flowVars>>

\* await asyncio.sleep(random.uniform(1.0, 1.5)): the clock moves while the
\* loop is suspended.  The sleep takes its longer value only in the first
\* VariedPasses passes.
CycleSleeps == {MinSleepMs, MaxSleepMs}

CycleSleep(d) ==
    /\ IF pressHistory = <<>> THEN FALSE ELSE now = pressHistory[Len(pressHistory)]
    /\ now + d <= MaxPasses * MinSleepMs
    /\ d = MinSleepMs \/ Len(pressHistory) <= VariedPasses
    /\ now' = now + d
    /\ outbox' = <<>>
    /\ lastOp' = "advance"
    /\ UNCHANGED <<autoDelay, pressHistory, simulation, tramline, tramMsg>>
    /\ UNCHANGED buzzer
    /\ UNCHANGED <<planVars, gpioVars, flowVars>>

\* handle_msg, type "set", key "auto-delay".
SetAutoDelay(cfg) ==
    /\ LET en == IF "enabled" \in DOMAIN cfg THEN cfg["enabled"] ELSE autoDelay.enabled
           man == IF "manualMs" \in DOMAIN cfg THEN cfg["manualMs"] ELSE autoDelay.manualMs
           geo == IF "geomLeadMs" \in DOMAIN cfg THEN cfg["geomLeadMs"]
                  ELSE autoDelay.geomLeadMs
           cur == IF ~en THEN man ELSE autoDelay.currentMs
       IN  /\ autoDelay' = [autoDelay EXCEPT !.enabled = en, !.manualMs = man,
                                             !.geomLeadMs = geo]
           /\ outbox' = <<AutoDelayMsg(cur)>>
    /\ lastOp' = "set"
    /\ UNCHANGED <<pressHistory, simulation, tramline, tramMsg, now>>
    /\ UNCHANGED buzzer
    /\ UNCHANGED <<planVars, gpioVars, flowVars>>

\* handle_msg, type "simulate".
Simulate(mode, on) ==
    /\ simulation' = IF mode = "full"
                     THEN [telemetry |-> (on \/ simulation.telemetry), full |-> on]
                     ELSE [simulation EXCEPT !.telemetry = on]
    /\ outbox' = <<>>
    /\ lastOp' = "simulate"
    /\ UNCHANGED <<autoDelay, pressHistory, tramline, tramMsg, now>>
    /\ UNCHANGED buzzer
    /\ UNCHANGED <<planVars, gpioVars, flowVars>>

\* The hub once a {"type": "simulate", "mode": "full", "on": true} message
\* has started cycle_loop.
InitHub ==
    /\ autoDelay = [enabled |-> TRUE, manualMs |-> DefaultManualMs, geomLeadMs |-> 0,
                    currentMs |-> DefaultManualMs]
    /\ pressHistory = <<>>
    /\ simulation = [telemetry |-> TRUE, full |-> TRUE]
    /\ CfgLoaded
    /\ tramline = NoTramline
    /\ tramMsg = NoTramMsg
    /\ now = 0
    /\ outbox = <<>>
    /\ lastOp = "simulate"
    /\ GpioConstructed
    /\ FlowConstructed
    /\ SchedulerUnused

NextHub ==
    \/ Advance
    \/ AutoDelayTick
    \/ CyclePress
    \/ \E cfg \in AutoDelayCfgs : SetAutoDelay(cfg)

SpecHub == InitHub /\ [][NextHub]_vars

(***************************************************************************)
(* Claims about the estimator (checked under SpecHub).                     *)
(***************************************************************************)
\* The presses younger than 15 s, and those not older than 15 s: a press
\* 15 s old to the millisecond is in the second list only.
Recent == SelectRecent(pressHistory, now)

RecentOrEdge ==
    LET n == Cardinality({ k \in 1..Len(pressHistory) :
                              now - pressHistory[k] <= WindowMs })
    IN  SubSeq(pressHistory, Len(pressHistory) - n + 1, Len(pressHistory))

AutoDelayValuesSent ==
    { outbox[i].value : i \in { j \in 1..Len(outbox) : outbox[j].type = "auto-delay" } }

\* AutoDelay enabled, geomLeadMs = 0, exactly three presses 1000 ms apart,
\* all of them inside the window.
C8_Case ==
    /\ autoDelay.enabled
    /\ autoDelay.geomLeadMs = 0
    /\ Len(pressHistory) = 3
    /\ pressHistory[2] = pressHistory[1] + 1000
    /\ pressHistory[3] = pressHistory[1] + 2000
    /\ now - pressHistory[1] < WindowMs

\* C8: with AutoDelay enabled, geomLeadMs = 0 and exactly three presses at
\* relative times 0, 1000, 2000 ms inside the window, every estimator tick
\* leaves currentMs = 500.
C8_ThreePressesGive500 ==
    (lastOp = "tick" /\ C8_Case) => autoDelay.currentMs = 500

\* C8 witness: such a tick has just changed currentMs to 500 and published it,
\* while manualMs is not 500.
C8_Witness ==
    /\ lastOp = "tick" /\ C8_Case
    /\ autoDelay.manualMs # 500
    /\ autoDelay.currentMs = 500
    /\ outbox = <<AutoDelayMsg(500)>>

C9_Case ==
    /\ ~autoDelay.enabled
    /\ autoDelay.manualMs = 500
    /\ autoDelay.geomLeadMs = 50

\* C9 as stated: with AutoDelay disabled, manualMs = 500, geomLeadMs = 50 the
\* stored currentMs and every auto-delay value sent are 550 in every state.
C9_AsStated ==
    C9_Case =>
        /\ autoDelay.currentMs = 550
        /\ \A v \in AutoDelayValuesSent : v = 550

\* C9 (amended): in that configuration every estimator tick leaves the stored
\* currentMs at 550 and sends no auto-delay value other than 550, for every
\* press history; once currentMs is 550 it stays 550 for as long as the
\* configuration is in force; the set handler itself leaves currentMs as it
\* was and broadcasts manualMs (500).
C9_DisabledTickGives550 ==
    /\ [](( lastOp = "tick" /\ C9_Case) =>
             /\ autoDelay.currentMs = 550
             /\ \A v \in AutoDelayValuesSent : v = 550)
    /\ []((lastOp = "set" /\ C9_Case) => outbox = <<AutoDelayMsg(500)>>)
    /\ [][(C9_Case /\ autoDelay.currentMs = 550 /\ C9_Case')
             => autoDelay'.currentMs = 550]_vars

\* C9 witness: a tick in that configuration has just moved currentMs to 550
\* and published it, with presses in the history.
C9_Witness ==
    /\ lastOp = "tick" /\ C9_Case
    /\ Len(Recent) >= 3
    /\ autoDelay.currentMs = 550
    /\ outbox = <<AutoDelayMsg(550)>>

C10_Case == autoDelay.enabled /\ Len(Recent) >= 3

\* The recent presses' mean interval over two is Span / Halves: the intervals
\* of consecutive presses add up to last - first.
C10_Span == Recent[Len(Recent)] - Recent[1]
C10_Halves == 2 * (Len(Recent) - 1)

\* C10 as stated: with AutoDelay enabled and at least 3 recent presses a tick
\* sets currentMs = max(0, round(mean_interval_ms / 2) + geomLeadMs), the half
\* rounded to the nearest integer.
C10_AsStated ==
    (lastOp = "tick" /\ C10_Case) =>
        autoDelay.currentMs =
            Max(0, RoundHalfEven(C10_Span, C10_Halves) + autoDelay.geomLeadMs)

C11_Case == autoDelay.enabled /\ Len(Recent) < 3

\* Fewer than 3 presses are 15 s old or younger.
C11_CaseToTheMs == autoDelay.enabled /\ Len(RecentOrEdge) < 3

\* C11 as stated: with AutoDelay enabled and fewer than 3 presses within the
\* last 15 s an estimator tick sets currentMs to manualMs, for every value of
\* geomLeadMs.
C11_AsStated ==
    (lastOp = "tick" /\ C11_Case) => autoDelay.currentMs = autoDelay.manualMs

\* C11 (amended): with AutoDelay enabled and fewer than 3 presses within the
\* last 15 s, a press 15 s old to the millisecond counted with them, an
\* estimator tick takes manualMs as its base and sets currentMs to
\* max(0, manualMs + geomLeadMs); that is manualMs exactly when
\* geomLeadMs = 0 and manualMs >= 0.
C11_FallbackAddsGeomLead ==
    (lastOp = "tick" /\ C11_CaseToTheMs) =>
        /\ autoDelay.currentMs = Max(0, autoDelay.manualMs + autoDelay.geomLeadMs)
        /\ (autoDelay.geomLeadMs = 0 /\ autoDelay.manualMs >= 0)
              => autoDelay.currentMs = autoDelay.manualMs

\* C11 witness: a tick after the earlier presses have left the window, with a
\* geometry lead in force: currentMs is manualMs + geomLeadMs, not manualMs.
C11_Witness ==
    /\ lastOp = "tick" /\ C11_CaseToTheMs
    /\ Len(pressHistory) >= 3
    /\ autoDelay.geomLeadMs = 50 /\ autoDelay.manualMs = 500
    /\ autoDelay.currentMs = 550
    /\ outbox = <<AutoDelayMsg(550)>>

\* The values a pass of _auto_delay_loop can compute from the current state.
TickValues ==
    { PassValue(autoDelay, pressHistory, now, h) : h \in FloatFalls }

\* C12: an estimator tick sends an auto-delay message if and only if the value
\* it computed differs from the stored currentMs; it then sends exactly that
\* value once and stores it; a tick that computes the stored value sends
\* nothing and leaves the hub state as it was.
C12_TickEdgeTriggered ==
    [][lastOp' = "tick" =>
          \E v \in TickValues :
             /\ (v # autoDelay.currentMs) <=> (AutoDelayValuesSent' # {})
             /\ v # autoDelay.currentMs =>
                   /\ outbox' = <<AutoDelayMsg(v)>>
                   /\ autoDelay' = [autoDelay EXCEPT !.currentMs = v]
             /\ v = autoDelay.currentMs =>
                   /\ outbox' = <<>>
                   /\ UNCHANGED <<autoDelay, pressHistory, simulation, tramline>>]_vars

\* C12 witness: a tick that sent nothing, after an earlier tick had moved
\* currentMs away from its initial value.
C12_Witness ==
    /\ lastOp = "tick"
    /\ outbox = <<>>
    /\ autoDelay.currentMs # DefaultManualMs
    /\ autoDelay.currentMs \in TickValues

\* C13: autoDelay.currentMs is >= 0 in every reachable state, whatever
\* auto-delay configurations (negative manualMs or geomLeadMs included),
\* presses and estimator ticks came before.
C13_CurrentMsNonNegative == autoDelay.currentMs >= 0

\* C13 witness: a tick under a configuration whose manualMs + geomLeadMs is
\* negative has stored 0.
C13_Witness ==
    /\ lastOp = "tick"
    /\ autoDelay.manualMs + autoDelay.geomLeadMs < 0
    /\ Len(Recent) < 3
    /\ autoDelay.currentMs = 0
    /\ outbox = <<AutoDelayMsg(0)>>

\* C23 as stated: in every reachable state no timestamp of the stored press
\* history is 15 s old or older.
C23_AsStated ==
    \A i \in 1..Len(pressHistory) : now - pressHistory[i] < WindowMs

\* The half mean interval of the presses rc in whole ms, less d.
C23_Half(rc, d) ==
    LET span == rc[Len(rc)] - rc[1]
        halves == 2 * (Len(rc) - 1)
    IN  IF span > 0 /\ span % halves = 0 THEN (span \div halves) - d
        ELSE span \div halves

\* C23 (amended): the stored history is cut by count only (at most 20
\* entries) and keeps timestamps older than 15 s; the window is applied when
\* the estimator reads the history: an enabled tick computes currentMs from
\* the timestamps younger than 15 s alone, or from those and one that is
\* 15 s old to the millisecond; from at least three of them it takes the
\* whole ms of their half mean interval, or one ms less when that half is a
\* whole number, and from fewer manualMs.
C23_WindowAppliedOnRead ==
    /\ Len(pressHistory) <= HistoryCap
    /\ \A i \in 1..Len(Recent) : now - Recent[i] < WindowMs
    /\ Len(Recent) =
          Cardinality({ i \in 1..Len(pressHistory) : now - pressHistory[i] < WindowMs })
    /\ (lastOp = "tick" /\ autoDelay.enabled) =>
          \E rc \in {Recent, RecentOrEdge}, d \in {0, 1} :
             autoDelay.currentMs =
                Max(0, autoDelay.geomLeadMs
                       + (IF Len(rc) >= 3 THEN C23_Half(rc, d)
                          ELSE autoDelay.manualMs))

\* C23 witness: an enabled tick over a stored history of at least three
\* presses, one of them older than 15 s, of which fewer than three are recent.
C23_Witness ==
    /\ lastOp = "tick" /\ autoDelay.enabled
    /\ Len(pressHistory) >= 3
    /\ now - pressHistory[1] >= WindowMs
    /\ Len(Recent) \in 1..2
    /\ autoDelay.currentMs = Max(0, autoDelay.manualMs + autoDelay.geomLeadMs)

(***************************************************************************)
(* server.py: cycle_loop on its own, run long enough for the history to    *)
(* reach its cap (checked under SpecPress).                                *)
(***************************************************************************)
NextPress ==
    \/ CycleLoopPass
    \/ \E d \in CycleSleeps : CycleSleep(d)

SpecPress == InitHub /\ [][NextPress]_vars

\* C22: after any number of recorded presses the history holds at most 20
\* timestamps in non-decreasing order, and they are the most recent presses:
\* a press is appended at the end, and once 20 are held the oldest one is
\* dropped and the others keep their order.
C22_LastTwentyInOrder ==
    /\ [](/\ Len(pressHistory) <= HistoryCap
          /\ \A i, j \in 1..Len(pressHistory) :
                i < j => pressHistory[i] <= pressHistory[j])
    /\ [][lastOp' = "press" =>
             /\ pressHistory'[Len(pressHistory')] = now
             /\ Len(pressHistory) < HistoryCap =>
                   pressHistory' = Append(pressHistory, now)
             /\ Len(pressHistory) = HistoryCap =>
                   pressHistory' = Append(Tail(pressHistory), now)]_vars

\* C22 witness: the cap has been reached and the first presses are gone.
C22_Witness ==
    /\ lastOp = "press"
    /\ Len(pressHistory) = HistoryCap
    /\ pressHistory[1] > MaxSleepMs
    /\ \E i \in 1..(HistoryCap - 1) : pressHistory[i + 1] - pressHistory[i] = MaxSleepMs

(***************************************************************************)
(* io_gpio.py: RPiGPIO outputs.  Units 1..NPins are mapped to a pin, unit  *)
(* NPins+1 is not; the buzzer is mapped.  A call is a coroutine: "free"    *)
(* (slot unused), "pending" (task created, not yet run), "hold" (inside    *)
(* the try, suspended in asyncio.sleep), "sleep" (the unmapped path's      *)
(* sleep), "done" (returned), "cancelled" (CancelledError left it) or       *)
(* "error" (another exception left it, which only a write after stop()     *)
(* raises).  highs / lows count the RGPIO.output(pin, HIGH / LOW) writes   *)
(* it made.                                                                *)
(***************************************************************************)
\* task.done(): the call has ended, by return, cancellation or exception.
Ended(c) == calls[c].pc \in {"done", "cancelled", "error"}

\* Calls are numbered in the order they are made.
IsNextCall(c) ==
    /\ calls[c].pc = "free"
    /\ \A d \in CallIds : d < c => calls[d].pc # "free"

\* A task is created for open_unit_for(unit_id, ms); nothing has run yet.
\* Neither open_unit_for checks whether the unit already has a call in flight.
CallOpenUnit(c, u) ==
    /\ UNCHANGED <<planVars, flowVars, hubVars>>
    /\ IsNextCall(c)
    /\ calls' = [calls EXCEPT ![c] = [FreeCall EXCEPT !.kind = "unit", !.unit = u,
                                                      !.timed = TRUE, !.pc = "pending"]]
    /\ UNCHANGED <<unitPin, buzzerPin>>

\* RPiGPIO.open_unit_for up to its first await: HIGH, then the sleep inside
\* try; the unmapped unit only sleeps.
RunOpenUnit(c) ==
    /\ UNCHANGED <<planVars, flowVars, hubVars>>
    /\ calls[c].kind = "unit" /\ calls[c].pc = "pending" /\ ~calls[c].cancelReq
    /\ IF calls[c].unit \in MappedUnits
       THEN /\ unitPin' = [unitPin EXCEPT ![calls[c].unit] = "HIGH"]
            /\ calls' = [calls EXCEPT ![c].pc = "hold", ![c].highs = @ + 1]
       ELSE /\ calls' = [calls EXCEPT ![c].pc = "sleep"]
            /\ UNCHANGED unitPin
    /\ UNCHANGED buzzerPin

\* A task is created for buzzer(on, ms); timed is "ms is not None".
CallBuzzer(c, on, timed) ==
    /\ UNCHANGED <<planVars, flowVars, hubVars>>
    /\ IsNextCall(c)
    /\ calls' = [calls EXCEPT ![c] = [FreeCall EXCEPT !.kind = "buzzer", !.on = on,
                                                      !.timed = timed, !.pc = "pending"]]
    /\ UNCHANGED <<unitPin, buzzerPin>>

\* RPiGPIO.buzzer up to its first await: with ms None it writes the level and
\* returns; with ms given it writes HIGH (whatever on is) and sleeps in try.
RunBuzzer(c) ==
    /\ UNCHANGED <<planVars, flowVars, hubVars>>
    /\ calls[c].kind = "buzzer" /\ calls[c].pc = "pending" /\ ~calls[c].cancelReq
    /\ IF ~calls[c].timed
       THEN /\ buzzerPin' = (IF calls[c].on THEN "HIGH" ELSE "LOW")
            /\ calls' = [calls EXCEPT ![c].pc = "done",
                                      ![c].highs = IF calls[c].on THEN @ + 1 ELSE @,
                                      ![c].lows = IF calls[c].on THEN @ ELSE @ + 1]
       ELSE /\ buzzerPin' = "HIGH"
            /\ calls' = [calls EXCEPT ![c].pc = "hold", ![c].highs = @ + 1]
    /\ UNCHANGED unitPin

\* The finally block of open_unit_for / buzzer: RGPIO.output(pin, LOW).
ReleaseSkipped(c, endpc) ==
    /\ calls' = [calls EXCEPT ![c].pc = endpc]
    /\ UNCHANGED <<unitPin, buzzerPin>>

Release(c, endpc) ==
    /\ calls' = [calls EXCEPT ![c].pc = endpc, ![c].lows = @ + 1]
    /\ IF calls[c].kind = "unit"
       THEN /\ unitPin' = [unitPin EXCEPT ![calls[c].unit] = "LOW"]
            /\ UNCHANGED buzzerPin
       ELSE /\ buzzerPin' = "LOW"
            /\ UNCHANGED unitPin

\* The sleep elapses: the finally block runs and the coroutine returns.
SleepElapsedHoldStuck(c) ==
    /\ UNCHANGED <<planVars, flowVars, hubVars>>
    /\ ~calls[c].cancelReq
    /\ calls[c].pc = "sleep"
    /\ calls' = [calls EXCEPT ![c].pc = "done"]
    /\ UNCHANGED <<unitPin, buzzerPin>>

SleepElapsed(c) ==
    /\ UNCHANGED <<planVars, flowVars, hubVars>>
    /\ ~calls[c].cancelReq
    /\ \/ calls[c].pc = "hold" /\ Release(c, "done")
       \/ /\ calls[c].pc = "sleep"
          /\ calls' = [calls EXCEPT ![c].pc = "done"]
          /\ UNCHANGED <<unitPin, buzzerPin>>

\* task.cancel(): the request; CancelledError is thrown at the task's next step.
Cancel(c) ==
    /\ UNCHANGED <<planVars, flowVars, hubVars>>
    /\ calls[c].pc \in {"pending", "hold", "sleep"}
    /\ ~calls[c].cancelReq
    /\ calls' = [calls EXCEPT ![c].cancelReq = TRUE]
    /\ UNCHANGED <<unitPin, buzzerPin>>

\* CancelledError raised at the await: inside the try the finally block runs;
\* a task that never started, or the unmapped sleep, just ends.
CancelDeliveredNoFinally(c) ==
    /\ UNCHANGED <<planVars, flowVars, hubVars>>
    /\ calls[c].cancelReq
    /\ calls[c].pc \in {"pending", "sleep", "hold"}
    /\ calls' = [calls EXCEPT ![c].pc = "cancelled"]
    /\ UNCHANGED <<unitPin, buzzerPin>>

CancelDelivered(c) ==
    /\ UNCHANGED <<planVars, flowVars, hubVars>>
    /\ calls[c].cancelReq
    /\ \/ calls[c].pc = "hold" /\ Release(c, "cancelled")
       \/ /\ calls[c].pc \in {"pending", "sleep"}
          /\ calls' = [calls EXCEPT ![c].pc = "cancelled"]
          /\ UNCHANGED <<unitPin, buzzerPin>>

InitGpio ==
    /\ GpioConstructed
    /\ FlowConstructed
    /\ HubLoaded
    /\ SchedulerUnused

NextGpio ==
    \/ \E c \in CallIds, u \in GpioUnits : CallOpenUnit(c, u)
    \/ \E c \in CallIds : RunOpenUnit(c)
    \/ \E c \in CallIds, on \in BOOLEAN, timed \in BOOLEAN : CallBuzzer(c, on, timed)
    \/ \E c \in CallIds : RunBuzzer(c)
    \/ \E c \in CallIds : SleepElapsed(c)
    \/ \E c \in CallIds : Cancel(c)
    \/ \E c \in CallIds : CancelDelivered(c)

SpecGpio == InitGpio /\ [][NextGpio]_vars

(***************************************************************************)
(* Claims about the outputs (checked under SpecGpio).                      *)
(***************************************************************************)
Holding(u) == { c \in CallIds : calls[c].kind = "unit" /\ calls[c].unit = u
                                 /\ calls[c].pc = "hold" }

\* C4: an open_unit_for call that has ended after asserting its output, by
\* returning or by cancellation, has deasserted it; a unit's output is HIGH
\* only while some open_unit_for call for it is inside its hold.
C4_ReleasedOnEveryExit ==
    /\ \A c \in CallIds :
          (calls[c].kind = "unit" /\ Ended(c) /\ calls[c].highs > 0)
             => calls[c].lows = calls[c].highs
    /\ \A u \in MappedUnits : unitPin[u] = "HIGH" => Holding(u) # {}

\* C4 witness: an open_unit_for call cancelled during its hold, its output LOW.
C4_Witness ==
    \E c \in CallIds :
        /\ calls[c].kind = "unit" /\ calls[c].pc = "cancelled"
        /\ calls[c].highs = 1 /\ calls[c].lows = 1
        /\ unitPin[calls[c].unit] = "LOW"

\* C5 as stated: on every path, the latching buzzer(on=True, ms=None) call
\* included, a call that asserted has deasserted exactly once when it ends.
C5_AsStated ==
    \A c \in CallIds :
        /\ (Ended(c) /\ calls[c].highs >= 1) => calls[c].lows = 1
        /\ calls[c].lows <= 1

\* C5 (amended): an open_unit_for call and a buzzer call with ms given write
\* HIGH once and, when they end after that (return or cancellation in the
\* hold), LOW exactly once, never before the end and never twice; a latching
\* buzzer(on=True, ms=None) call writes HIGH and returns with no LOW.
C5_OneDeassertPerTimedAssert ==
    \A c \in CallIds :
        /\ calls[c].highs <= 1 /\ calls[c].lows <= 1
        /\ calls[c].pc = "hold" => (calls[c].highs = 1 /\ calls[c].lows = 0)
        /\ (calls[c].timed /\ Ended(c) /\ calls[c].highs = 1) => calls[c].lows = 1
        /\ (calls[c].timed /\ Ended(c) /\ calls[c].highs = 0) => calls[c].lows = 0
        /\ (calls[c].kind = "buzzer" /\ ~calls[c].timed /\ calls[c].on
              /\ calls[c].pc = "done")
              => (calls[c].highs = 1 /\ calls[c].lows = 0)

\* C5 witness: a unit call that completed, a pulsed buzzer call cancelled in
\* its hold, and a latching buzzer call that returned.
C5_Witness ==
    /\ \E c \in CallIds : /\ calls[c].kind = "unit" /\ calls[c].pc = "done"
                          /\ calls[c].highs = 1 /\ calls[c].lows = 1
    /\ \E c \in CallIds : /\ calls[c].kind = "buzzer" /\ calls[c].timed
                          /\ calls[c].pc = "cancelled"
                          /\ calls[c].highs = 1 /\ calls[c].lows = 1
    /\ \E c \in CallIds : /\ calls[c].kind = "buzzer" /\ ~calls[c].timed
                          /\ calls[c].on /\ calls[c].pc = "done"

\* C6 as stated: two open_unit_for calls for the same unit never hold the
\* output at the same time (the second request is rejected).
C6_AsStated ==
    \A u \in MappedUnits : Cardinality(Holding(u)) <= 1

(***************************************************************************)
(* io_gpio.py: the pulse counter.  get_pulses_and_reset runs on the event  *)
(* loop thread as two statements; RPi.GPIO runs _flow_cb on its own        *)
(* callback thread, where "+= n" is a load followed by a store.  No lock   *)
(* guards _pulse_count, so the two threads interleave between statements.  *)
(***************************************************************************)
PulseAmounts == {1, 2}

\* c = self._pulse_count
ReadCount ==
    /\ UNCHANGED <<planVars, gpioVars, hubVars>>
    /\ reader.pc = "idle"
    /\ reader' = [pc |-> "read", c |-> pulse_count]
    /\ UNCHANGED <<pulse_count, edge, returned, delivered>>
    /\ UNCHANGED switchVars

\* self._pulse_count = 0; return c
ResetAndReturn ==
    /\ UNCHANGED <<planVars, gpioVars, hubVars>>
    /\ reader.pc = "read"
    /\ pulse_count' = 0
    /\ returned' = returned + reader.c
    /\ reader' = [pc |-> "idle", c |-> 0]
    /\ UNCHANGED <<edge, delivered>>
    /\ UNCHANGED switchVars

\* _flow_cb (n = 1) or _simulate_flow_pulse(n): the load of self._pulse_count
PulseLoad(n) ==
    /\ UNCHANGED <<planVars, gpioVars, hubVars>>
    /\ edge.pc = "idle"
    /\ delivered + n <= MaxPulses
    /\ edge' = [pc |-> "loaded", tmp |-> pulse_count, n |-> n]
    /\ UNCHANGED <<pulse_count, reader, returned, delivered>>
    /\ UNCHANGED switchVars

\* ... and the store of the sum
PulseStore ==
    /\ UNCHANGED <<planVars, gpioVars, hubVars>>
    /\ edge.pc = "loaded"
    /\ pulse_count' = edge.tmp + edge.n
    /\ delivered' = delivered + edge.n
    /\ edge' = [pc |-> "idle", tmp |-> 0, n |-> 0]
    /\ UNCHANGED <<reader, returned>>
    /\ UNCHANGED switchVars

NextFlow ==
    \/ ReadCount
    \/ ResetAndReturn
    \/ \E n \in PulseAmounts : PulseLoad(n)
    \/ PulseStore

SpecFlow == InitGpio /\ [][NextFlow]_vars

\* C7 as stated: whenever no read and no increment is in progress, the values
\* returned by all reads plus the counter's value equal the pulses delivered.
C7_AsStated ==
    (reader.pc = "idle" /\ edge.pc = "idle")
        => returned + pulse_count = delivered

(***************************************************************************)
(* server.py: the tramline map.  Its keys are str(id) of the message's id, *)
(* its values booleans.  The hub holds no reference to the GPIO layer      *)
(* (server.py imports neither io_gpio nor scheduler), so output calls may  *)
(* be in flight while tram messages are handled.                           *)
(***************************************************************************)
TramIds == GpioUnits

\* str(id) of a unit id
UidKey(id) == <<"1", "2", "3", "4", "5", "6", "7", "8", "9", "10", "11">>[id]

\* self.state["tramline"][uid] = off
TramAssigned(t, uid, off) ==
    [k \in DOMAIN t \cup {uid} |-> IF k = uid THEN off ELSE t[k]]

\* for k in list(keys): if not tramline[k]: tramline.pop(k)
TramPruned(t) == [k \in { j \in DOMAIN t : t[j] } |-> t[k]]

\* bool(tramline.get(uid))
TramlinedOff(t, uid) == uid \in DOMAIN t /\ t[uid]

TramHandled(type, id, off) ==
    [type |-> type, id |-> id, off |-> off,
     was |-> (type = "tram" /\ TramlinedOff(tramline, UidKey(id))),
     n |-> 1 - tramMsg.n]

\* handle_msg, type "tram": assign, then drop the false entries.
TramNoPrune(id, off) ==
    /\ tramline' = TramAssigned(tramline, UidKey(id), off)
    /\ tramMsg' = TramHandled("tram", id, off)
    /\ lastOp' = "tram"
    /\ outbox' = <<>>
    /\ UNCHANGED <<autoDelay, pressHistory, simulation, now>>
    /\ UNCHANGED buzzer
    /\ UNCHANGED <<planVars, gpioVars, flowVars>>

TramFlips(id, off) ==
    /\ tramline' = TramPruned(TramAssigned(tramline, UidKey(id),
                                           ~TramlinedOff(tramline, UidKey(id))))
    /\ tramMsg' = TramHandled("tram", id, off)
    /\ lastOp' = "tram"
    /\ outbox' = <<>>
    /\ UNCHANGED <<autoDelay, pressHistory, simulation, now>>
    /\ UNCHANGED buzzer
    /\ UNCHANGED <<planVars, gpioVars, flowVars>>

Tram(id, off) ==
    /\ tramline' = TramPruned(TramAssigned(tramline, UidKey(id), off))
    /\ tramMsg' = TramHandled("tram", id, off)
    /\ lastOp' = "tram"
    /\ outbox' = <<>>
    /\ UNCHANGED <<autoDelay, pressHistory, simulation, now>>
    /\ UNCHANGED buzzer
    /\ UNCHANGED <<planVars, gpioVars, flowVars>>

\* handle_msg, type "tram-clear"
TramClear ==
    /\ tramline' = NoTramline
    /\ tramMsg' = TramHandled("tram-clear", 0, FALSE)
    /\ lastOp' = "tram-clear"
    /\ outbox' = <<>>
    /\ UNCHANGED <<autoDelay, pressHistory, simulation, now>>
    /\ UNCHANGED buzzer
    /\ UNCHANGED <<planVars, gpioVars, flowVars>>

\* The output calls made while tram messages arrive.
TramCallIds == 1..TramCalls

NextTram ==
    \/ \E id \in TramIds, off \in BOOLEAN : Tram(id, off)
    \/ TramClear
    \/ \E c \in TramCallIds, u \in GpioUnits : CallOpenUnit(c, u)
    \/ \E c \in TramCallIds : RunOpenUnit(c)
    \/ \E c \in TramCallIds : SleepElapsed(c)
    \/ \E c \in TramCallIds : Cancel(c)
    \/ \E c \in TramCallIds : CancelDelivered(c)

SpecTram == InitGpio /\ [][NextTram]_vars

(***************************************************************************)
(* Claims about the tramline map (checked under SpecTram).                 *)
(***************************************************************************)
\* The step handled a message.
TramStep == tramMsg'.n # tramMsg.n

\* C14: a tram message with off = true for a unit already in the tramline map,
\* or with off = false for a unit not in it, leaves the map and every other
\* part of the state (hub, scheduler, outputs, pulse counter) as it was.
C14_TramIdempotent ==
    [][(/\ TramStep
        /\ tramMsg'.type = "tram"
        /\ tramMsg'.off = TramlinedOff(tramline, UidKey(tramMsg'.id)))
          => /\ tramline' = tramline
             /\ UNCHANGED <<autoDelay, pressHistory, simulation, now>>
             /\ UNCHANGED buzzer
             /\ UNCHANGED <<planVars, gpioVars, flowVars>>]_vars

\* C14 witness: a unit already tramlined off has been tramlined off again
\* while another unit is in the map and an output call is in its hold.
C14_Witness ==
    /\ tramMsg.type = "tram" /\ tramMsg.off /\ tramMsg.was
    /\ TramlinedOff(tramline, UidKey(tramMsg.id))
    /\ Cardinality(DOMAIN tramline) >= 2
    /\ \E c \in CallIds : calls[c].pc = "hold"

\* C15: after any sequence of tram and tram-clear messages every entry of the
\* tramline map has the value true; a unit switched back on is out of the
\* map once its message is handled.
C15_OnlyTrueEntries ==
    /\ \A k \in DOMAIN tramline : tramline[k] = TRUE
    /\ (lastOp = "tram" /\ ~tramMsg.off) => UidKey(tramMsg.id) \notin DOMAIN tramline

\* C15 witness: a tramlined unit has just been switched back on and is gone
\* from the map, which still holds another unit.
C15_Witness ==
    /\ lastOp = "tram" /\ ~tramMsg.off /\ tramMsg.was
    /\ UidKey(tramMsg.id) \notin DOMAIN tramline
    /\ DOMAIN tramline # {}

\* C16 as stated: handling a tram message with off = true for a unit requests
\* the cancellation of every open_unit_for call of that unit that is
\* scheduled or active, so that its output is deasserted at the call's next
\* step instead of staying asserted for the planned duration.
C16_AsStated ==
    [][(TramStep /\ tramMsg'.type = "tram" /\ tramMsg'.off)
          => \A c \in CallIds :
                (/\ calls[c].kind = "unit"
                 /\ calls[c].unit = tramMsg'.id
                 /\ calls[c].pc \in {"pending", "hold"})
                   => (calls'[c].cancelReq \/ calls'[c].pc = "cancelled")]_vars

(***************************************************************************)
(* io_gpio.py: open_unit_for under the event loop's scheduling.  A task    *)
(* that is ready runs, a sleep that was started elapses, and a requested   *)
(* cancellation is delivered at the task's next step; whether anybody      *)
(* calls or cancels is left open.                                          *)
(***************************************************************************)
NextUnits ==
    \/ \E c \in TramCallIds, u \in GpioUnits : CallOpenUnit(c, u)
    \/ \E c \in TramCallIds : RunOpenUnit(c)
    \/ \E c \in TramCallIds : SleepElapsed(c)
    \/ \E c \in TramCallIds : Cancel(c)
    \/ \E c \in TramCallIds : CancelDelivered(c)

SpecUnitsFair ==
    /\ InitGpio
    /\ [][NextUnits]_vars
    /\ \A c \in TramCallIds :
          /\ WF_vars(RunOpenUnit(c))
          /\ WF_vars(SleepElapsed(c))
          /\ WF_vars(CancelDelivered(c))

\* C24: under fair scheduling every open_unit_for call that was started
\* eventually is finished, by completion or by cancellation, having written
\* LOW for the HIGH it wrote.
C24_StartedCallsEnd ==
    \A c \in TramCallIds :
        (calls[c].pc \in {"pending", "hold", "sleep"})
            ~> (Ended(c) /\ calls[c].lows = calls[c].highs)

\* C24 witness: one call has run to completion and one was cancelled in its
\* hold; both wrote HIGH and LOW once and the outputs are LOW.
C24_Witness ==
    /\ \E c \in TramCallIds : /\ calls[c].pc = "done"
                               /\ calls[c].highs = 1 /\ calls[c].lows = 1
    /\ \E c \in TramCallIds : /\ calls[c].pc = "cancelled"
                               /\ calls[c].highs = 1 /\ calls[c].lows = 1
    /\ \A u \in MappedUnits : unitPin[u] = "LOW"

(***************************************************************************)
(* io_gpio.py: RPiGPIO.stop.  BaseGPIO.stop cancels the tasks listed in    *)
(* self._tasks and clears the list; RPiGPIO.open_unit_for is a coroutine   *)
(* of its caller and appends nothing to that list, so the list stop walks  *)
(* is empty.  RGPIO.cleanup() then returns every channel to an input.      *)
(* stop() does not stop the event loop: the calls in flight keep running   *)
(* and write to channels that are no longer set up.  RPi.GPIO refuses such *)
(* a write with RuntimeError, which ends the call; a GPIO library that     *)
(* ignores the write lets the call go on.  Either way the channel stays an *)
(* input and the write is not counted.                                     *)
(***************************************************************************)
Stopped == buzzerPin = "IN"

Stop ==
    /\ ~Stopped
    /\ calls' = calls
    /\ unitPin' = [u \in MappedUnits |-> "IN"]
    /\ buzzerPin' = "IN"
    /\ UNCHANGED <<planVars, flowVars, hubVars>>

\* RGPIO.output on a cleaned-up channel: RuntimeError, or nothing.
RefusedWrite == {"RuntimeError", "ignored"}

\* open_unit_for up to its first await, after stop(): the HIGH is refused;
\* the unmapped unit only sleeps.
RunOpenUnitStopped(c) ==
    /\ UNCHANGED <<planVars, flowVars, hubVars>>
    /\ Stopped
    /\ calls[c].kind = "unit" /\ calls[c].pc = "pending" /\ ~calls[c].cancelReq
    /\ IF calls[c].unit \in MappedUnits
       THEN \E w \in RefusedWrite :
               calls' = [calls EXCEPT ![c].pc = IF w = "RuntimeError" THEN "error"
                                                ELSE "hold"]
       ELSE calls' = [calls EXCEPT ![c].pc = "sleep"]
    /\ UNCHANGED <<unitPin, buzzerPin>>

\* The sleep elapses after stop(): the LOW of the finally block is refused.
SleepElapsedStopped(c) ==
    /\ UNCHANGED <<planVars, flowVars, hubVars>>
    /\ Stopped
    /\ ~calls[c].cancelReq
    /\ \/ /\ calls[c].pc = "hold"
          /\ \E w \in RefusedWrite :
                calls' = [calls EXCEPT ![c].pc = IF w = "RuntimeError" THEN "error"
                                                 ELSE "done"]
       \/ /\ calls[c].pc = "sleep"
          /\ calls' = [calls EXCEPT ![c].pc = "done"]
    /\ UNCHANGED <<unitPin, buzzerPin>>

\* CancelledError raised at the await after stop(): the LOW of the finally
\* block is refused, and a RuntimeError replaces the CancelledError.
CancelDeliveredStopped(c) ==
    /\ UNCHANGED <<planVars, flowVars, hubVars>>
    /\ Stopped
    /\ calls[c].cancelReq
    /\ \/ /\ calls[c].pc = "hold"
          /\ \E w \in RefusedWrite :
                calls' = [calls EXCEPT ![c].pc = IF w = "RuntimeError" THEN "error"
                                                 ELSE "cancelled"]
       \/ /\ calls[c].pc \in {"pending", "sleep"}
          /\ calls' = [calls EXCEPT ![c].pc = "cancelled"]
    /\ UNCHANGED <<unitPin, buzzerPin>>

NextStop ==
    \/ \E c \in TramCallIds, u \in GpioUnits : CallOpenUnit(c, u)
    \/ \E c \in TramCallIds : ~Stopped /\ RunOpenUnit(c)
    \/ \E c \in TramCallIds : ~Stopped /\ SleepElapsed(c)
    \/ \E c \in TramCallIds : Cancel(c)
    \/ \E c \in TramCallIds : ~Stopped /\ CancelDelivered(c)
    \/ Stop
    \/ \E c \in TramCallIds : RunOpenUnitStopped(c)
    \/ \E c \in TramCallIds : SleepElapsedStopped(c)
    \/ \E c \in TramCallIds : CancelDeliveredStopped(c)

SpecStop == InitGpio /\ [][NextStop]_vars

\* C25 as stated: once stop() has returned every open_unit_for call that was
\* in flight has been cancelled (none is left scheduled or holding without a
\* cancellation) and no unit output is asserted.
C25_AsStated ==
    Stopped =>
        /\ \A c \in CallIds :
              (calls[c].kind = "unit" /\ calls[c].pc \in {"pending", "hold", "sleep"})
                 => calls[c].cancelReq
        /\ \A u \in MappedUnits : unitPin[u] # "HIGH"

(***************************************************************************)
(* The planner as a state machine.                                         *)
(***************************************************************************)
InitPlan ==
    /\ \E us \in [UnitIds -> UnitChoice] :
       \E cur \in CurrentMsValues :
       \E off \in MomOffsets :
             view = [targetMl |-> 100, deliveryMode |-> "flow",
                     autoDelay |-> [enabled |-> TRUE, manualMs |-> 500,
                                    geomLeadMs |-> 0, currentMs |-> cur],
                     momentary |-> [n \in {"M1", "M2", "M3"} |->
                                      MomentaryCfg(n = "M1", IF n = "M1" THEN off ELSE 0)],
                     units |-> [i \in UnitIds |->
                                  UnitState(i, us[i].enabled, us[i].group,
                                            us[i].perDelayMs)]]
    /\ tramOff \in SUBSET UnitIds
    /\ pattern = "diamond"
    /\ ret = NoCall
    /\ profileFiles = EmptyDict
    /\ GpioConstructed
    /\ FlowConstructed
    /\ HubLoaded

\* Scheduler.set_pattern(p)
SetPattern(p) ==
    /\ pattern' = p
    /\ ret' = NoCall
    /\ UNCHANGED <<view, tramOff, profileFiles>>
    /\ UNCHANGED <<gpioVars, flowVars, hubVars>>

\* Scheduler.plan_cycle(now_ms = t0)
PlanCycle(t0) ==
    /\ ret' = [op |-> "plan_cycle", t0 |-> t0, out |-> PlanCycleResult(t0, pattern, view)]
    /\ UNCHANGED <<view, tramOff, pattern, profileFiles>>
    /\ UNCHANGED <<gpioVars, flowVars, hubVars>>

NextPlan ==
    \/ \E p \in Patterns : SetPattern(p)
    \/ \E t0 \in PressTimes : PlanCycle(t0)

SpecPlan == InitPlan /\ [][NextPlan]_vars

(***************************************************************************)
(* Claims about the planner (checked under SpecPlan).                      *)
(***************************************************************************)
Planned == ret.op = "plan_cycle"

EntryIndexes(uid) == { k \in 1..Len(ret.out) : ret.out[k].unit_id = uid }

\* The per-unit delay as it shows in the start time _unit_fire_ms returns.
DelayAdded(u) ==
    UnitFireMs(0, pattern, u, view)
    - PatternBaseMs(pattern, u, view.autoDelay, DefaultDiagonalStepMs)
    - MomentaryMs(view.momentary, u.momentary)

\* C1 as stated: in the diamond pattern the delay added for a group-B unit is
\* >= -currentMs and for a group-A unit >= 0, for every snapshot.
C1_AsStated ==
    pattern = "diamond" =>
        \A i \in UnitIds :
            LET u == view.units[i]
            IN  /\ u.group = "B" => DelayAdded(u) >= 0 - view.autoDelay.currentMs
                /\ u.group = "A" => DelayAdded(u) >= 0

\* C1 (amended): in the diamond pattern the delay added for a group-B unit is
\* >= -max(0, currentMs) (which is -currentMs whenever currentMs >= 0) and equals
\* max(perDelayMs, -max(0, currentMs)); for a group-A unit it is max(perDelayMs, 0).
C1_DiamondDelayFloor ==
    pattern = "diamond" =>
        \A i \in UnitIds :
            LET u == view.units[i]
                floorB == 0 - Max(0, view.autoDelay.currentMs)
            IN  /\ u.group = "B" =>
                     /\ DelayAdded(u) >= floorB
                     /\ DelayAdded(u) = Max(u.perDelayMs, floorB)
                     /\ view.autoDelay.currentMs >= 0
                            => DelayAdded(u) >= 0 - view.autoDelay.currentMs
                /\ u.group = "A" =>
                     /\ DelayAdded(u) >= 0
                     /\ DelayAdded(u) = Max(u.perDelayMs, 0)
                /\ (Planned /\ EntryIndexes(i) # {}) =>
                     \A k \in EntryIndexes(i) :
                        ret.out[k].start_ms = ret.t0
                            + PatternBaseMs(pattern, u, view.autoDelay, DefaultDiagonalStepMs)
                            + MomentaryMs(view.momentary, u.momentary)
                            + DelayAdded(u)

\* C1 witness: a diamond plan holding a group-B unit whose perDelayMs lies below
\* the floor and a group-A unit whose perDelayMs is negative.
C1_Witness ==
    /\ Planned /\ pattern = "diamond"
    /\ view.autoDelay.currentMs > 0
    /\ \E i \in UnitIds :
          /\ view.units[i].group = "B"
          /\ view.units[i].perDelayMs < 0 - view.autoDelay.currentMs
          /\ EntryIndexes(i) # {}
    /\ \E i \in UnitIds :
          /\ view.units[i].group = "A"
          /\ view.units[i].perDelayMs < 0
          /\ EntryIndexes(i) # {}

\* C2: the list plan_cycle returns is sorted ascending by (start_ms, unit_id)
\* and holds no entry of a disabled or tramlined unit.
C2_SortedNoSuppressed ==
    Planned =>
        /\ \A j, k \in 1..Len(ret.out) :
              j < k =>
                 \/ ret.out[j].start_ms < ret.out[k].start_ms
                 \/ /\ ret.out[j].start_ms = ret.out[k].start_ms
                    /\ ret.out[j].unit_id <= ret.out[k].unit_id
        /\ \A k \in 1..Len(ret.out) :
              /\ ret.out[k].unit_id \in UnitIds
              /\ view.units[ret.out[k].unit_id].enabled
              /\ ret.out[k].unit_id \notin tramOff

\* C2 witness: a plan of two entries whose order is not the unit order, made
\* from a snapshot whose first unit is enabled and tramlined off.
C2_Witness ==
    /\ Planned
    /\ Len(ret.out) = 2
    /\ ret.out[1].unit_id > ret.out[2].unit_id
    /\ view.units[1].enabled /\ 1 \in tramOff

\* C3: plan_cycle returns exactly one entry for every enabled, non-tramlined
\* unit and nothing else, also when the unit's start_ms lies before the press.
C3_OneEntryPerActiveUnit ==
    Planned =>
        /\ \A i \in UnitIds :
              (view.units[i].enabled /\ i \notin tramOff)
                 => Cardinality(EntryIndexes(i)) = 1
        /\ Len(ret.out) =
              Cardinality({ i \in UnitIds : view.units[i].enabled /\ i \notin tramOff })

\* C3 witness: a plan holding an entry whose start_ms is before the press time.
C3_Witness ==
    /\ Planned
    /\ \E k \in 1..Len(ret.out) : ret.out[k].start_ms < ret.t0

(***************************************************************************)
(* The planner over single-unit snapshots that vary what SpecPlan keeps    *)
(* fixed: the switch the unit is bound to, the switches' offsets, the      *)
(* delivery modes, targetMl, msPerMl and pulsesPerCycle.  The snapshot     *)
(* also carries the diagonal step the configuration surface names and the  *)
(* unit's pulsesPerLiter of default_state; BrainStateView and UnitState    *)
(* have no field for them and the scheduler reads neither.                 *)
(***************************************************************************)
SwitchOffsets == {-20, 30, 150}
DisabledSwitchOffset == 40
SwitchNames == {"M1", "M2", "None"}
UnitModes == {"inherit", "flow", "timed"}
DeliveryModes == {"flow", "timed"}
TargetMls == {100, 15, 3, 0}
MsPerMlTenths == {50, 41, 83, 25, 0, -10}
DiagonalSteps == {DefaultDiagonalStepMs, 120}
FireCurrentMs == {0, 500}
PulsesPerCycles == {100, 30}
DefaultPulsesPerLiter == 450

InitFire ==
    /\ \E i \in UnitIds, g \in {"A", "B"}, mom \in SwitchNames, per \in PerDelays,
          md \in UnitModes, mpm \in MsPerMlTenths, tgt \in TargetMls,
          dm \in DeliveryModes, cur \in FireCurrentMs, off \in SwitchOffsets,
          step \in DiagonalSteps, ppc \in PulsesPerCycles :
             view = [targetMl |-> tgt, deliveryMode |-> dm,
                     autoDelay |-> [enabled |-> TRUE, manualMs |-> 500,
                                    geomLeadMs |-> 0, currentMs |-> cur],
                     momentary |-> [n \in {"M1", "M2", "M3"} |->
                                      IF n = "M1" THEN MomentaryCfg(TRUE, off)
                                      ELSE IF n = "M2"
                                      THEN MomentaryCfg(FALSE, DisabledSwitchOffset)
                                      ELSE MomentaryCfg(FALSE, 0)],
                     diagonalStepMs |-> step,
                     units |-> << [id |-> i, enabled |-> TRUE, group |-> g,
                                   momentary |-> mom, offset |-> 0,
                                   perDelayMs |-> per, mode |-> md,
                                   pulsesPerCycle |-> ppc,
                                   pulsesPerLiter |-> DefaultPulsesPerLiter,
                                   msPerMl |-> mpm] >>]
    /\ tramOff = {}
    /\ pattern = "diamond"
    /\ ret = NoCall
    /\ profileFiles = EmptyDict
    /\ GpioConstructed
    /\ FlowConstructed
    /\ HubLoaded

SpecFire == InitFire /\ [][NextPlan]_vars

(***************************************************************************)
(* Claims about start time and duration (checked under SpecFire).          *)
(***************************************************************************)
\* The unit of the snapshot the entry e was planned for.
UnitOf(e) == CHOOSE u \in { view.units[j] : j \in 1..Len(view.units) } : u.id = e.unit_id

Clamp(x, lo, hi) == Max(lo, Min(hi, x))

\* The part of an entry's start time that is neither the press time, nor the
\* pattern's base offset, nor the per-unit delay.
MomentaryAdded(e) ==
    e.start_ms - ret.t0
    - PatternBaseMs(pattern, UnitOf(e), view.autoDelay, DefaultDiagonalStepMs)
    - PerUnitDelay(pattern, UnitOf(e), view)

\* C17 as stated: the momentary offset in an entry's start time is
\* clamp(offset, 0, 100) * 10 ms of the switch bound to the unit, and 0 when
\* the unit has no bound switch or the bound switch's enabled flag is false.
C17_AsStated ==
    Planned =>
        \A k \in 1..Len(ret.out) :
            LET name == UnitOf(ret.out[k]).momentary
            IN  MomentaryAdded(ret.out[k]) =
                    IF name \notin DOMAIN view.momentary THEN 0
                    ELSE IF ~view.momentary[name].enabled THEN 0
                    ELSE Clamp(view.momentary[name].offset, 0, 100) * 10

\* The part of an entry's start time that is neither the press time, nor the
\* momentary offset, nor the per-unit delay.
BaseAdded(e) ==
    e.start_ms - ret.t0
    - MomentaryMs(view.momentary, UnitOf(e).momentary)
    - PerUnitDelay(pattern, UnitOf(e), view)

\* C18 as stated: the base offset in an entry's start time is 0 for group A
\* and currentMs for group B in diamond, (id-1) * step_ms with the snapshot's
\* configured diagonal step in diagonal, 0 in line.
C18_AsStated ==
    Planned =>
        \A k \in 1..Len(ret.out) :
            LET u == UnitOf(ret.out[k])
            IN  BaseAdded(ret.out[k]) =
                    CASE pattern = "diamond" ->
                           (IF u.group = "A" THEN 0 ELSE view.autoDelay.currentMs)
                      [] pattern = "diagonal" -> (u.id - 1) * view.diagonalStepMs
                      [] OTHER -> 0

\* The three summands written out as the code computes them.
C19_Base(u) ==
    CASE pattern = "diamond" ->
           (IF u.group = "A" THEN 0 ELSE Max(0, view.autoDelay.currentMs))
      [] pattern = "diagonal" -> (u.id - 1) * 80
      [] OTHER -> 0

C19_Momentary(u) ==
    IF u.momentary \in DOMAIN view.momentary
    THEN Clamp(view.momentary[u.momentary].offset, 0, 100) * 10 ELSE 0

C19_ClampedDelay(u) ==
    IF pattern # "diamond" THEN u.perDelayMs
    ELSE IF u.group = "A" THEN Max(u.perDelayMs, 0)
    ELSE Max(u.perDelayMs, 0 - Max(0, view.autoDelay.currentMs))

\* C19: every emitted entry has start_ms = press time + base offset +
\* momentary offset + clamped per-unit delay, and in the diagonal and line
\* patterns the per-unit delay enters unclamped: a negative perDelayMs moves
\* the start earlier by exactly that amount.
C19_StartIsSum ==
    Planned =>
        \A k \in 1..Len(ret.out) :
            LET e == ret.out[k]
                u == UnitOf(e)
            IN  /\ e.start_ms = ret.t0 + C19_Base(u) + C19_Momentary(u)
                                  + C19_ClampedDelay(u)
                /\ pattern \in {"diagonal", "line"} =>
                      e.start_ms - (ret.t0 + C19_Base(u) + C19_Momentary(u))
                         = u.perDelayMs

\* C19 witness: a diagonal plan whose unit has a negative perDelayMs, a base
\* offset and a momentary offset, and starts before the press.
C19_Witness ==
    /\ Planned /\ pattern = "diagonal" /\ Len(ret.out) = 1
    /\ view.units[1].perDelayMs < 0
    /\ C19_Base(view.units[1]) > 0
    /\ C19_Momentary(view.units[1]) > 0
    /\ ret.out[1].start_ms < ret.t0

C20_EffectiveMode(u) ==
    IF u.mode \in {"flow", "timed"} THEN u.mode ELSE view.deliveryMode

\* C20 as stated: for a unit whose effective mode is timed the entry's
\* duration_ms = round(max(1, target_ml) * max(0.1, ms_per_ml)), the product
\* of the two numbers rounded, for every msPerMl of the snapshot.
C20_AsStated ==
    Planned =>
        \A k \in 1..Len(ret.out) :
            LET u == UnitOf(ret.out[k])
            IN  C20_EffectiveMode(u) = "timed" =>
                   ret.out[k].duration_ms =
                      RoundHalfEven(Max(1, view.targetMl) * Max(1, u.msPerMl), 10)

\* C20 (amended): the effective mode is the unit's mode when that is flow or
\* timed and the global delivery mode otherwise; for an effective mode timed
\* duration_ms is max(1, target_ml) * max(0.1, m) rounded to a nearest
\* integer, where m is the unit's msPerMl, or 5.0 when msPerMl is 0 (unset):
\* the product rounded half to even when it is not an exact half or m is a
\* multiple of 0.5, and at an exact half the side the double-precision
\* product falls on (15 * 4.1 gives 61, 15 * 8.3 gives 125); target_ml = 100
\* and ms_per_ml = 5.0 give exactly 500; for an effective mode flow there is
\* no duration.
C20_TimedDuration ==
    Planned =>
        \A k \in 1..Len(ret.out) :
            LET e == ret.out[k]
                u == UnitOf(e)
                m == Max(1, IF u.msPerMl = 0 THEN 50 ELSE u.msPerMl)
                n == Max(1, view.targetMl) * m
            IN  /\ e.mode_info.mode = C20_EffectiveMode(u)
                /\ C20_EffectiveMode(u) = "timed" =>
                      /\ 10 * e.duration_ms - n \in -5..5
                      /\ (n % 10 # 5 \/ m % 5 = 0)
                            => e.duration_ms = RoundHalfEven(n, 10)
                      /\ (view.targetMl = 100 /\ u.msPerMl = 50)
                            => e.duration_ms = 500
                      /\ (view.targetMl = 15 /\ u.msPerMl = 41)
                            => e.duration_ms = 61
                      /\ (view.targetMl = 15 /\ u.msPerMl = 83)
                            => e.duration_ms = 125
                /\ C20_EffectiveMode(u) = "flow" => e.duration_ms = "None"

\* C20 witness: a unit in mode timed under the global mode flow, target 100
\* and 5.0 ms per ml, planned with a duration of 500.
C20_Witness ==
    /\ Planned /\ Len(ret.out) = 1
    /\ view.deliveryMode = "flow"
    /\ view.units[1].mode = "timed"
    /\ view.targetMl = 100 /\ view.units[1].msPerMl = 50
    /\ ret.out[1].duration_ms = 500

\* C21 as stated: for a unit whose effective mode is flow the entry has no
\* duration and its pulse target is min(round(target_ml * pulses_per_liter /
\* 1000), pulses_per_cycle), pulses_per_cycle floored at 1.
C21_AsStated ==
    Planned =>
        \A k \in 1..Len(ret.out) :
            LET e == ret.out[k]
                u == UnitOf(e)
            IN  C20_EffectiveMode(u) = "flow" =>
                   /\ e.duration_ms = "None"
                   /\ e.mode_info.pulses =
                         Min(RoundHalfEven(Max(1, view.targetMl) * u.pulsesPerLiter, 1000),
                             Max(1, u.pulsesPerCycle))

(***************************************************************************)
(* The buzzer flags: handle_msg "set" buzzer-muted / buzzer-hardmute, and  *)
(* buzzer calls on the GPIO layer running beside them.                     *)
(***************************************************************************)
\* handle_msg, set buzzer-muted: state["buzzer"]["muted"] = bool(value).
SetBuzzerMuted(v) ==
    /\ buzzer' = [buzzer EXCEPT !.muted = v]
    /\ outbox' = <<>>
    /\ lastOp' = "set"
    /\ UNCHANGED <<autoDelay, pressHistory, simulation, tramline, tramMsg, now>>
    /\ UNCHANGED <<planVars, gpioVars, flowVars>>

\* handle_msg, set buzzer-hardmute: state["buzzer"]["hardMute"] = bool(value).
SetBuzzerHardMute(v) ==
    /\ buzzer' = [buzzer EXCEPT !.hardMute = v]
    /\ outbox' = <<>>
    /\ lastOp' = "set"
    /\ UNCHANGED <<autoDelay, pressHistory, simulation, tramline, tramMsg, now>>
    /\ UNCHANGED <<planVars, gpioVars, flowVars>>

NextBuzz ==
    \/ \E v \in BOOLEAN : SetBuzzerMuted(v)
    \/ \E v \in BOOLEAN : SetBuzzerHardMute(v)
    \/ \E c \in TramCallIds, on \in BOOLEAN, timed \in BOOLEAN : CallBuzzer(c, on, timed)
    \/ \E c \in TramCallIds : RunBuzzer(c)
    \/ \E c \in TramCallIds : SleepElapsed(c)
    \/ \E c \in TramCallIds : Cancel(c)
    \/ \E c \in TramCallIds : CancelDelivered(c)

SpecBuzz == InitGpio /\ [][NextBuzz]_vars

\* C26 as stated: while buzzer.muted or buzzer.hardMute is set, no step
\* asserts the buzzer output (takes it from not HIGH to HIGH).
C26_AsStated ==
    [][((buzzer.muted \/ buzzer.hardMute) /\ buzzerPin # "HIGH")
          => buzzerPin' # "HIGH"]_vars

(***************************************************************************)
(* The momentary switches: a press sets the switch and schedules its       *)
(* release on the event loop, one timer for each press (press is the       *)
(* number of the press that made it), so two presses of one switch at the  *)
(* same loop time leave two timers.  Time moves in steps of the debounce   *)
(* time.                                                                   *)
(* A release runs when the loop gets to it, at its due time or later: the  *)
(* loop looks at its timers once per iteration, and call_later made on the *)
(* edge callback's thread does not wake a loop that is idle.               *)
(***************************************************************************)
ReleaseDelayMs == 50
BounceMs == 10
MaxSwitchTicks == 9
MaxSwitchPresses == 3

PulseVars == <<pulse_count, reader, edge, returned, delivered>>

\* _simulate_switch_pulse(name) and the edge callback _mk_switch_cb(name)
\* have the same body: set the switch, schedule the release.
SwitchPress(name) ==
    /\ UNCHANGED <<planVars, gpioVars, hubVars>>
    /\ Len(pressLog) < MaxSwitchPresses
    /\ switch_state' = [switch_state EXCEPT ![name] = TRUE]
    /\ releases' = releases \cup {[name |-> name, due |-> loopMs + ReleaseDelayMs,
                                     press |-> Len(pressLog) + 1]}
    /\ pressLog' = Append(pressLog, [name |-> name, at |-> loopMs])
    /\ UNCHANGED loopMs
    /\ UNCHANGED PulseVars

\* The scheduled lambda: self._switch_state.__setitem__(name, False).
ReleaseFires(t) ==
    /\ UNCHANGED <<planVars, gpioVars, hubVars>>
    /\ t \in releases
    /\ t.due <= loopMs
    /\ switch_state' = [switch_state EXCEPT ![t.name] = FALSE]
    /\ releases' = releases \ {t}
    /\ UNCHANGED <<loopMs, pressLog>>
    /\ UNCHANGED PulseVars

\* Time passes, also while a release that is due has not run yet.
LoopTimePasses ==
    /\ UNCHANGED <<planVars, gpioVars, hubVars>>
    /\ loopMs + BounceMs <= MaxSwitchTicks * BounceMs
    /\ loopMs' = loopMs + BounceMs
    /\ UNCHANGED <<switch_state, releases, pressLog>>
    /\ UNCHANGED PulseVars

NextSwitch ==
    \/ \E name \in GpioSwitches : SwitchPress(name)
    \/ \E t \in releases : ReleaseFires(t)
    \/ LoopTimePasses

SpecSwitch == InitGpio /\ [][NextSwitch]_vars

\* read_switch(name)
ReadSwitch(name) == switch_state[name]

PressTimesOf(name) == { pressLog[k].at : k \in { j \in 1..Len(pressLog) :
                                                  pressLog[j].name = name } }

\* The loop has a release of the switch to run: one that is due and pending.
C27_ReleaseOverdue(name) == \E t \in releases : t.name = name /\ t.due <= loopMs

\* C27 as stated: a switch reads pressed from each of its presses until
\* ReleaseDelayMs later, and released otherwise, once the loop has run the
\* releases that are due.
C27_AsStated ==
    \A name \in GpioSwitches :
        /\ (\E p \in PressTimesOf(name) : loopMs < p + ReleaseDelayMs)
              => ReadSwitch(name)
        /\ (ReadSwitch(name) /\ ~C27_ReleaseOverdue(name))
              => \E p \in PressTimesOf(name) : loopMs <= p + ReleaseDelayMs

(***************************************************************************)
(* The setters of handle_msg "set".  A unit setter looks the unit up by    *)
(* id, assigns one field and saves; with no unit of that id the loop       *)
(* assigns nothing.  The elif of the unit-msperml branch (server.py:324)   *)
(* stands at column 0; SetUnitMsPerMl keeps both outcomes of that line.    *)
(* msPerMl is in tenths, as in the planner.  The auto-delay and buzzer     *)
(* setters, which write no unit and not the delivery mode, run under       *)
(* SpecHub and SpecBuzz.  The setters write the state dict held in view;   *)
(* log_event appends to eventLog, which the view does not hold.            *)
(***************************************************************************)
SetIds == {11, 12}
MomentaryInputs == {"M9"}
GroupInputs == {"A", "B", "C"}
OffsetInputs == {-5, 250}
DelayInputs == {-700}
GlobalModeInputs == {"flow", "timed", "inherit"}
ModeInputs == {"inherit", "flow", "timed", "auto"}
PpcInputs == {0, 30}
KfactorInputs == {-3, 600}
MsPerMlInputs == {0, 25}
TargetInputs == {-5}

\* m.get("name") of a gpio message: a switch, or None for a message that
\* carries no name; and m.get("pin").
GpioNames == {"M1", "None"}
GpioPins == {17}

\* What every unit setter leaves alone, and save_state.
SetSaved ==
    /\ outbox' = <<>>
    /\ lastOp' = "set"
    /\ UNCHANGED <<autoDelay, pressHistory, simulation, tramline, tramMsg, now>>
    /\ UNCHANGED <<tramOff, pattern, ret, profileFiles>>
    /\ UNCHANGED <<gpioVars, flowVars>>

SetUnitEnabled(uid, v) ==
    /\ view' = [view EXCEPT !.units = [i \in DOMAIN view.units |->
                      IF view.units[i].id = uid
                      THEN [view.units[i] EXCEPT !.enabled = v] ELSE view.units[i]]]
    /\ UNCHANGED buzzer
    /\ SetSaved

SetUnitMomentary(uid, v) ==
    /\ view' = [view EXCEPT !.units = [i \in DOMAIN view.units |->
                      IF view.units[i].id = uid
                      THEN [view.units[i] EXCEPT !.momentary = v] ELSE view.units[i]]]
    /\ UNCHANGED buzzer
    /\ SetSaved

SetUnitGroup(uid, v) ==
    /\ view' = [view EXCEPT !.units = [i \in DOMAIN view.units |->
                      IF view.units[i].id = uid
                      THEN [view.units[i] EXCEPT !.group = IF v = "A" THEN "A" ELSE "B"]
                      ELSE view.units[i]]]
    /\ UNCHANGED buzzer
    /\ SetSaved

SetUnitOffsetUnclamped(uid, v) ==
    /\ view' = [view EXCEPT !.units = [i \in DOMAIN view.units |->
                      IF view.units[i].id = uid
                      THEN [view.units[i] EXCEPT !.offset = v] ELSE view.units[i]]]
    /\ UNCHANGED buzzer
    /\ SetSaved

SetUnitOffset(uid, v) ==
    /\ view' = [view EXCEPT !.units = [i \in DOMAIN view.units |->
                      IF view.units[i].id = uid
                      THEN [view.units[i] EXCEPT !.offset = Max(0, Min(100, v))]
                      ELSE view.units[i]]]
    /\ UNCHANGED buzzer
    /\ SetSaved

SetUnitDelayMs(uid, v) ==
    /\ view' = [view EXCEPT !.units = [i \in DOMAIN view.units |->
                      IF view.units[i].id = uid
                      THEN [view.units[i] EXCEPT !.perDelayMs = v] ELSE view.units[i]]]
    /\ UNCHANGED buzzer
    /\ SetSaved

SetDeliveryMode(v) ==
    /\ view' = [view EXCEPT !.deliveryMode = IF v = "timed" THEN "timed" ELSE "flow"]
    /\ UNCHANGED buzzer
    /\ SetSaved

SetUnitDeliveryMode(uid, v) ==
    /\ view' = [view EXCEPT !.units = [i \in DOMAIN view.units |->
                      IF view.units[i].id = uid
                      THEN [view.units[i] EXCEPT
                              !.mode = IF v \in {"inherit", "flow", "timed"}
                                       THEN v ELSE "inherit"]
                      ELSE view.units[i]]]
    /\ UNCHANGED buzzer
    /\ SetSaved

SetUnitPpc(uid, v) ==
    /\ view' = [view EXCEPT !.units = [i \in DOMAIN view.units |->
                      IF view.units[i].id = uid
                      THEN [view.units[i] EXCEPT !.pulsesPerCycle = Max(1, v)]
                      ELSE view.units[i]]]
    /\ UNCHANGED buzzer
    /\ SetSaved

SetUnitKfactor(uid, v) ==
    /\ view' = [view EXCEPT !.units = [i \in DOMAIN view.units |->
                      IF view.units[i].id = uid
                      THEN [view.units[i] EXCEPT !.pulsesPerLiter = Max(1, v)]
                      ELSE view.units[i]]]
    /\ UNCHANGED buzzer
    /\ SetSaved

\* key "unit-msperml".  The elif of server.py:324 stands at column 0 above
\* statements indented as a branch of the set handler, and the interpreter
\* refuses the file as it stands.  The handler runs only with that line
\* repaired, and the two repairs differ: the line indented as the branch it
\* was written to be, msPerMl = max(1, float(value)), or the branch taken
\* out, the key then tested nowhere and the message changing nothing.  Both
\* outcomes are kept.  msPerMl is held in tenths.
SetUnitMsPerMl(uid, v) ==
    /\ \/ view' = [view EXCEPT !.units = [i \in DOMAIN view.units |->
                         IF view.units[i].id = uid
                         THEN [view.units[i] EXCEPT !.msPerMl = Max(10, v)]
                         ELSE view.units[i]]]
       \/ view' = view
    /\ UNCHANGED buzzer
    /\ SetSaved

\* key "target": targetMl = int(value).
SetTarget(v) ==
    /\ view' = [view EXCEPT !.targetMl = v]
    /\ UNCHANGED buzzer
    /\ SetSaved

\* key "running": running = bool(value).
SetRunning(v) ==
    /\ view' = [view EXCEPT !.running = v]
    /\ UNCHANGED buzzer
    /\ SetSaved

\* key "gpio": self.state.setdefault("gpio", {})[name] = pin
SetGpio(name, pin) ==
    /\ LET g == IF "gpio" \in DOMAIN view THEN view.gpio ELSE EmptyDict
       IN  view' = [k \in DOMAIN view \cup {"gpio"} |->
                       IF k = "gpio"
                       THEN [n \in DOMAIN g \cup {name} |->
                                IF n = name THEN pin ELSE g[n]]
                       ELSE view[k]]
    /\ UNCHANGED buzzer
    /\ SetSaved

NextSet ==
    \/ \E uid \in SetIds, v \in BOOLEAN : SetUnitEnabled(uid, v)
    \/ \E uid \in SetIds, v \in MomentaryInputs : SetUnitMomentary(uid, v)
    \/ \E uid \in SetIds, v \in GroupInputs : SetUnitGroup(uid, v)
    \/ \E uid \in SetIds, v \in OffsetInputs : SetUnitOffset(uid, v)
    \/ \E uid \in SetIds, v \in DelayInputs : SetUnitDelayMs(uid, v)
    \/ \E v \in GlobalModeInputs : SetDeliveryMode(v)
    \/ \E uid \in SetIds, v \in ModeInputs : SetUnitDeliveryMode(uid, v)
    \/ \E uid \in SetIds, v \in PpcInputs : SetUnitPpc(uid, v)
    \/ \E uid \in SetIds, v \in KfactorInputs : SetUnitKfactor(uid, v)
    \/ \E uid \in SetIds, v \in MsPerMlInputs : SetUnitMsPerMl(uid, v)
    \/ \E v \in TargetInputs : SetTarget(v)
    \/ \E v \in BOOLEAN : SetRunning(v)
    \/ \E name \in GpioNames, pin \in GpioPins : SetGpio(name, pin)

\* The hub after load_state on a first run: the state dict is default_state().
InitSet ==
    /\ view = DefaultState
    /\ tramOff = {}
    /\ pattern = "diamond"
    /\ ret = NoCall
    /\ profileFiles = EmptyDict
    /\ GpioConstructed
    /\ FlowConstructed
    /\ HubLoaded

SpecSet == InitSet /\ [][NextSet]_vars

C28_InRange ==
    /\ DOMAIN view.units = 1..11
    /\ \A i \in DOMAIN view.units :
          /\ view.units[i].id = i
          /\ view.units[i].offset \in 0..100
          /\ view.units[i].pulsesPerCycle >= 1
          /\ view.units[i].pulsesPerLiter >= 1
          /\ view.units[i].msPerMl > 0
          /\ view.units[i].group \in {"A", "B"}
          /\ view.units[i].mode \in {"inherit", "flow", "timed"}
    /\ view.deliveryMode \in {"flow", "timed"}

C28_UnitSetStep(uid) ==
    \/ \E v \in BOOLEAN : SetUnitEnabled(uid, v)
    \/ \E v \in MomentaryInputs : SetUnitMomentary(uid, v)
    \/ \E v \in GroupInputs : SetUnitGroup(uid, v)
    \/ \E v \in OffsetInputs : SetUnitOffset(uid, v)
    \/ \E v \in DelayInputs : SetUnitDelayMs(uid, v)
    \/ \E v \in ModeInputs : SetUnitDeliveryMode(uid, v)
    \/ \E v \in PpcInputs : SetUnitPpc(uid, v)
    \/ \E v \in KfactorInputs : SetUnitKfactor(uid, v)
    \/ \E v \in MsPerMlInputs : SetUnitMsPerMl(uid, v)

\* C28: after any sequence of set messages every unit keeps offset in
\* 0..100, pulsesPerCycle >= 1, pulsesPerLiter >= 1, msPerMl > 0, group in
\* {A, B} and mode in {inherit, flow, timed}, deliveryMode is flow or timed,
\* the unit list is the 11 units with ids 1..11, and a message naming an
\* id that no unit has changes no unit.
C28_SetKeepsRanges ==
    /\ []C28_InRange
    /\ [][\A uid \in SetIds \ AllUnitIds :
             C28_UnitSetStep(uid) => view'.units = view.units]_vars

\* C28 witness: unit 11 after out-of-range values for each clamped field,
\* msPerMl written from a value below 1, the global mode after a value that
\* is not flow, a negative target and a gpio mapping stored.
C28_Witness ==
    /\ lastOp = "set"
    /\ view.targetMl < 0
    /\ "gpio" \in DOMAIN view
    /\ view.units[11].offset = 100
    /\ view.units[11].pulsesPerCycle = 1
    /\ view.units[11].pulsesPerLiter = 1
    /\ view.units[11].msPerMl = 10
    /\ view.units[11].group = "B"
    /\ view.units[11].mode = "timed"
    /\ view.deliveryMode = "timed"

(***************************************************************************)
(* The diamond pattern against the press time (checked under SpecPlan).    *)
(***************************************************************************)
\* C29: in the diamond pattern every entry plan_cycle returns starts at or
\* after the press time, and every group-B entry starts no earlier than the
\* press time plus the offset of the unit's momentary switch, whatever
\* perDelayMs, currentMs (negative included) and the offsets are.
C29_DiamondNotBeforePress ==
    (Planned /\ pattern = "diamond") =>
        \A k \in 1..Len(ret.out) :
            LET e == ret.out[k]
                u == view.units[e.unit_id]
            IN  /\ e.start_ms >= ret.t0
                /\ u.group = "B" =>
                      e.start_ms >= ret.t0 + MomentaryMs(view.momentary, u.momentary)

\* C29 witness: a diamond plan under a negative currentMs holding a group-B
\* unit with a negative perDelayMs and a non-zero switch offset, scheduled
\* exactly at the press time plus that offset, beside a group-A unit with a
\* negative perDelayMs.
C29_Witness ==
    /\ Planned /\ pattern = "diamond"
    /\ view.autoDelay.currentMs < 0
    /\ \E k \in 1..Len(ret.out) :
          LET u == view.units[ret.out[k].unit_id]
          IN  /\ u.group = "B" /\ u.perDelayMs < 0
              /\ MomentaryMs(view.momentary, u.momentary) > 0
              /\ ret.out[k].start_ms
                    = ret.t0 + MomentaryMs(view.momentary, u.momentary)
    /\ \E k \in 1..Len(ret.out) :
          LET u == view.units[ret.out[k].unit_id]
          IN  u.group = "A" /\ u.perDelayMs < 0

(***************************************************************************)
(* Overlapping actuations of one unit (checked under SpecGpio).            *)
(***************************************************************************)
\* C30 as stated: whenever at least one open_unit_for call for a unit is
\* inside its hold, the unit's output is HIGH.
C30_AsStated ==
    \A u \in MappedUnits : Holding(u) # {} => unitPin[u] = "HIGH"

(***************************************************************************)
(* The auto-delay messages: a client joining beside the set handler, the   *)
(* presses and the estimator.                                              *)
(***************************************************************************)
\* Hub.register: the joining client is sent the stored currentMs.
Register ==
    /\ outbox' = <<AutoDelayMsg(autoDelay.currentMs)>>
    /\ lastOp' = "register"
    /\ UNCHANGED <<autoDelay, pressHistory, simulation, tramline, tramMsg, now>>
    /\ UNCHANGED buzzer
    /\ UNCHANGED <<planVars, gpioVars, flowVars>>

NextJoin ==
    \/ Register
    \/ Advance
    \/ AutoDelayTick
    \/ CyclePress
    \/ \E cfg \in AutoDelayCfgs : SetAutoDelay(cfg)

SpecJoin == InitHub /\ [][NextJoin]_vars

\* C31 as stated: every auto-delay value sent is the currentMs stored at the
\* moment of sending, and is not negative.
C31_AsStated ==
    \A v \in AutoDelayValuesSent : v = autoDelay.currentMs /\ v >= 0

(***************************************************************************)
(* profiles.py beside cycle_loop: a profile is saved from the live state   *)
(* dict (held in view), applied to it and deleted, while the passes of     *)
(* cycle_loop write the units' readings and set messages are handled       *)
(* during its sleeps.  A deviation is kept as the fraction num / den.  A   *)
(* file holds what json.dumps wrote.                                       *)
(***************************************************************************)
PROFILE_KEYS == {"targetMl", "deliveryMode", "momentary", "autoDelay", "units", "gpio"}
RuntimeKeys == {"lastDeliveredMl", "deviation", "status"}

\* The names profiles are saved and applied under, and _sanitize_name of
\* each: characters other than letters, digits, "-", "_", " " and "." are
\* dropped.
ProfileNames == {"field-1", "field-1?"}
SanitizeName(name) == IF name = "field-1?" THEN "field-1" ELSE name

\* random.uniform(-0.05, 0.05), in percent: the draws of one pass, one for
\* each unit.
DevDraws ==
    { [i \in AllUnitIds |-> -5], [i \in AllUnitIds |-> 3],
      [i \in AllUnitIds |-> IF i % 2 = 1 THEN -5 ELSE 3] }

\* The reading of one unit: delivered = max(0, round(target * (1.0 + dev))),
\* deviation = (delivered - target) / max(1, target), and the status by the
\* size of the deviation (up to 0.05 OK, 0.10 WARN, 0.15 INSPECT).
WithReading(u, target, dev) ==
    LET ml == Max(0, RoundHalfEven(target * (100 + dev), 100))
        num == ml - target
        den == Max(1, target)
        absd == IF num < 0 THEN -num ELSE num
    IN  [k \in DOMAIN u \cup RuntimeKeys |->
            CASE k = "lastDeliveredMl" -> ml
              [] k = "deviation" -> [num |-> num, den |-> den]
              [] k = "status" -> IF 100 * absd <= 5 * den THEN "OK"
                                 ELSE IF 100 * absd <= 10 * den THEN "WARN"
                                 ELSE IF 100 * absd <= 15 * den THEN "INSPECT"
                                 ELSE "BLOCKED"
              [] OTHER -> u[k]]

\* One pass of cycle_loop over the state dict: the press is recorded, every
\* enabled unit that is not tramlined gets its reading against the target
\* max(5, int(targetMl)), "cycle" is sent.
CycleLoopDelivers(devs) ==
    /\ simulation.full
    /\ IF pressHistory = <<>> THEN TRUE ELSE now > pressHistory[Len(pressHistory)]
    /\ Len(pressHistory) < MaxPresses
    /\ pressHistory' = KeepLast(Append(pressHistory, now))
    /\ view' = [view EXCEPT !.units = [i \in DOMAIN view.units |->
                   IF /\ view.units[i].enabled
                      /\ ~TramlinedOff(tramline, UidKey(view.units[i].id))
                   THEN WithReading(view.units[i], Max(5, view.targetMl), devs[i])
                   ELSE view.units[i]]]
    /\ outbox' = <<CycleMsg>>
    /\ lastOp' = "press"
    /\ UNCHANGED <<autoDelay, simulation, tramline, tramMsg, now>>
    /\ UNCHANGED buzzer
    /\ UNCHANGED <<tramOff, pattern, ret, profileFiles>>
    /\ UNCHANGED <<gpioVars, flowVars>>

\* u.pop("lastDeliveredMl", None); u.pop("deviation", None); u.pop("status", None)
PopRuntime(u) == [k \in DOMAIN u \ RuntimeKeys |-> u[k]]

\* _strip_runtime(state): out[k] = state[k] copies references, so the units
\* the pops run over are the units of the state itself.
StripRuntimeOut(state) ==
    [k \in PROFILE_KEYS \cap DOMAIN state |->
        IF k = "units"
        THEN [i \in DOMAIN state.units |-> PopRuntime(state.units[i])]
        ELSE state[k]]

StripRuntimeState(state) ==
    IF "units" \in DOMAIN state
    THEN [state EXCEPT !.units = [i \in DOMAIN state.units |-> PopRuntime(state.units[i])]]
    ELSE state

\* json.dumps of a profile: it writes the key None of a dict as "null", and
\* of the profile's dicts only the gpio mapping can hold a key that is not a
\* string.
JsonDumps(out) ==
    LET JsonKey(m) == IF m = "None" THEN "null" ELSE m
    IN  [k \in DOMAIN out |->
            IF k = "gpio"
            THEN [n \in { JsonKey(m) : m \in DOMAIN out.gpio } |->
                     out.gpio[CHOOSE m \in DOMAIN out.gpio : JsonKey(m) = n]]
            ELSE out[k]]

\* save_profile(name, state): the stripped dict is written to the file of
\* the sanitized name, and the path returned.
SaveProfile(name) ==
    /\ ret' = [op |-> "save_profile", name |-> name, path |-> SanitizeName(name)]
    /\ profileFiles' =
          [f \in DOMAIN profileFiles \cup {SanitizeName(name)} |->
              IF f = SanitizeName(name) THEN JsonDumps(StripRuntimeOut(view))
              ELSE profileFiles[f]]
    /\ view' = StripRuntimeState(view)
    /\ UNCHANGED <<tramOff, pattern>>
    /\ UNCHANGED <<gpioVars, flowVars, hubVars>>

\* load_profile(name), the file being there: the parsed file with the
\* setdefault calls applied.
LoadProfile(name) ==
    LET data == profileFiles[SanitizeName(name)]
        defaults ==
            [targetMl |-> 100, deliveryMode |-> "flow",
             momentary |-> [n \in {"M1", "M2", "M3"} |->
                              [enabled |-> (n = "M1"), offset |-> 0]],
             autoDelay |-> [enabled |-> TRUE, manualMs |-> 500, geomLeadMs |-> 0,
                            currentMs |-> 500],
             units |-> <<>>,
             gpio |-> EmptyDict]
    IN  [k \in DOMAIN data \cup PROFILE_KEYS |->
            IF k \in DOMAIN data THEN data[k] ELSE defaults[k]]

\* apply_profile(state, prof): the profile keys of prof replace those of
\* state; ad = state.get("autoDelay", {}) is given currentMs =
\* int(ad.get("manualMs", 500)) if it has none.
ApplyProfileState(state, prof) ==
    LET taken == PROFILE_KEYS \cap DOMAIN prof
        merged == [k \in DOMAIN state \cup taken \cup {"autoDelay"} |->
                      IF k \in taken THEN prof[k]
                      ELSE IF k \in DOMAIN state THEN state[k]
                      ELSE EmptyDict]
        ad == merged.autoDelay
    IN  [merged EXCEPT !.autoDelay =
            IF "currentMs" \in DOMAIN ad THEN ad
            ELSE [k \in DOMAIN ad \cup {"currentMs"} |->
                    IF k # "currentMs" THEN ad[k]
                    ELSE IF "manualMs" \in DOMAIN ad THEN ad.manualMs
                    ELSE DefaultManualMs]]

\* apply_profile(state, load_profile(name)); load_profile raises
\* FileNotFoundError when no file of that name was saved.
ApplyProfile(name) ==
    /\ IF SanitizeName(name) \in DOMAIN profileFiles
       THEN /\ view' = ApplyProfileState(view, LoadProfile(name))
            /\ ret' = [op |-> "apply_profile", name |-> name, path |-> SanitizeName(name)]
       ELSE /\ UNCHANGED view
            /\ ret' = [op |-> "load_profile", name |-> name, path |-> "FileNotFoundError"]
    /\ UNCHANGED <<tramOff, pattern, profileFiles>>
    /\ UNCHANGED <<gpioVars, flowVars, hubVars>>

\* delete_profile(name): the file of the sanitized name is removed if it is
\* there; the call returns whether it was.
DeleteProfile(name) ==
    /\ ret' = [op |-> "delete_profile", name |-> name,
               removed |-> (SanitizeName(name) \in DOMAIN profileFiles)]
    /\ profileFiles' = [f \in DOMAIN profileFiles \ {SanitizeName(name)} |->
                           profileFiles[f]]
    /\ UNCHANGED <<view, tramOff, pattern>>
    /\ UNCHANGED <<gpioVars, flowVars, hubVars>>

\* The hub on a first run once a {"type": "simulate", "mode": "full",
\* "on": true} message has started cycle_loop: the state dict is
\* default_state() and no profile has been saved.
InitProfile ==
    /\ view = DefaultState
    /\ tramOff = {}
    /\ pattern = "diamond"
    /\ ret = NoCall
    /\ profileFiles = EmptyDict
    /\ GpioConstructed
    /\ FlowConstructed
    /\ CfgLoaded
    /\ autoDelay = [enabled |-> TRUE, manualMs |-> DefaultManualMs, geomLeadMs |-> 0,
                    currentMs |-> DefaultManualMs]
    /\ pressHistory = <<>>
    /\ simulation = [telemetry |-> TRUE, full |-> TRUE]
    /\ tramline = NoTramline
    /\ tramMsg = NoTramMsg
    /\ now = 0
    /\ outbox = <<>>
    /\ lastOp = "simulate"

NextProfile ==
    \/ \E devs \in DevDraws : CycleLoopDelivers(devs)
    \/ \E d \in CycleSleeps : CycleSleep(d)
    \/ \E name \in ProfileNames : SaveProfile(name)
    \/ \E name \in ProfileNames : ApplyProfile(name)
    \/ \E name \in ProfileNames : DeleteProfile(name)
    \/ \E v \in TargetInputs : SetTarget(v)
    \/ \E name \in GpioNames, pin \in GpioPins : SetGpio(name, pin)

SpecProfile == InitProfile /\ [][NextProfile]_vars

\* C32 as stated: save_profile leaves the state it is given as it was; every
\* unit keeps its lastDeliveredMl, deviation and status.
C32_AsStated ==
    [][(\E name \in ProfileNames : SaveProfile(name)) => view' = view]_vars

====
